---------------------------- MODULE Spec2Model ----------------------------
(***************************************************************************)
(* A model of the binary codec layer of zfs-rust: the endian cursor, the   *)
(* DVA, block pointer, dnode and uberblock codecs, the label checksum and  *)
(* the entry points that dispatch on an enumeration.                       *)
(*                                                                         *)
(* Representation.  A byte is a number in 0..255.  A buffer is a sequence  *)
(* of bytes.  A u64 (u32, u16) is its base-256 numeral, most significant   *)
(* byte first, as a sequence of 8 (4, 2) bytes: 2^64 does not fit a TLC    *)
(* integer, and the numeral keeps every bit.  Byte k of a word w (bits     *)
(* 8k..8k+7) is w[Len(w) - k].  A field of at most 25 bits is a number.    *)
(***************************************************************************)
EXTENDS Integers, Sequences, FiniteSets, TLC

VARIABLES
    data,       \* the caller's input buffer (the bytes a decoder reads)
    endian,     \* the endian of the cursor: "Big" or "Little"
    offset,     \* endian::Decoder.offset
    value,      \* the last Result of a decoder (ok, err, val, off)
    out,        \* the caller's output buffer (the bytes an encoder writes)
    result,     \* the last Result of an encoder or of a verify call
    salt,       \* the offset argument of label_checksum / label_verify
    sha,        \* the messages SHA-256 has digested so far (see sha_256_digest)
    changed,    \* the index of the byte the caller overwrote after checksumming, or 0
    arg,        \* the argument of a call that is not a buffer: a ChecksumType, a vdev type
    pc          \* the position of the caller

vars == <<data, endian, offset, value, out, result, salt, sha, changed, arg, pc>>

Endians == {"Big", "Little"}

NoResult == [ok |-> FALSE, err |-> "NotRun", off |-> 0]

-----------------------------------------------------------------------------
(* Sequences and bits.                                                     *)

Reverse(s) == [i \in 1..Len(s) |-> s[Len(s) + 1 - i]]

Zeros(n) == [i \in 1..n |-> 0]

Fill(n, b) == [i \in 1..n |-> b]

IsZero(s) == \A i \in 1..Len(s) : s[i] = 0

Slice(s, start, len) == SubSeq(s, start + 1, start + len)

\* s with the bytes at offset..offset+Len(b)-1 replaced by b (copy_from_slice)
Patch(s, start, b) ==
    [i \in 1..Len(s) |-> IF i > start /\ i <= start + Len(b) THEN b[i - start] ELSE s[i]]

\* bit k of a byte
Bit(b, k) == (b \div (2 ^ k)) % 2

\* the number a numeral of at most 3 bytes stands for
RECURSIVE Num(_)
Num(w) == IF Len(w) = 0 THEN 0 ELSE 256 * Num(SubSeq(w, 1, Len(w) - 1)) + w[Len(w)]

\* the numeral of n bytes of a number
RECURSIVE Numeral(_, _)
Numeral(v, n) == IF n = 0 THEN <<>> ELSE Append(Numeral(v \div 256, n - 1), v % 256)

-----------------------------------------------------------------------------
(* endian.rs: the byte orders.                                             *)

from_be_bytes(b) == b

from_le_bytes(b) == Reverse(b)

to_be_bytes(w) == w

to_le_bytes(w) == Reverse(w)

swap_bytes(w) == Reverse(w)

EndianDecode(e, b) == IF e = "Big" THEN from_be_bytes(b) ELSE from_le_bytes(b)

EndianEncode(e, w) == IF e = "Big" THEN to_be_bytes(w) ELSE to_le_bytes(w)

-----------------------------------------------------------------------------
(* endian.rs: Decoder.  A Result is [ok, err, val, off]: off is the        *)
(* decoder's offset after the call.                                        *)

Ok(v, o) == [ok |-> TRUE, err |-> "None", val |-> v, off |-> o]

Err(e, o) == [ok |-> FALSE, err |-> e, off |-> o]

DecoderLen(d, o) == IF Len(d) >= o THEN Len(d) - o ELSE 0

check_need(d, o, count) == DecoderLen(d, o) >= count

get_bytes(d, o, length) ==
    IF check_need(d, o, length) THEN Ok(Slice(d, o, length), o + length)
    ELSE Err("EndOfInput", o)

get_u8(d, o) ==
    IF check_need(d, o, 1) THEN Ok(d[o + 1], o + 1) ELSE Err("EndOfInput", o)

get_u16(d, o, e) ==
    IF check_need(d, o, 2) THEN Ok(EndianDecode(e, Slice(d, o, 2)), o + 2)
    ELSE Err("EndOfInput", o)

get_u64(d, o, e) ==
    IF check_need(d, o, 8) THEN Ok(EndianDecode(e, Slice(d, o, 8)), o + 8)
    ELSE Err("EndOfInput", o)

skip(d, o, count) ==
    IF check_need(d, o, count) THEN Ok(<<>>, o + count) ELSE Err("EndOfInput", o)

\* skip_zero_padding that has moved the cursor when it finds a byte that is not zero
skip_zero_padding_moving(d, o, count) ==
    IF ~check_need(d, o, count) THEN Err("EndOfInput", o)
    ELSE IF ~IsZero(Slice(d, o, count)) THEN Err("NonZeroPadding", o + count)
    ELSE Ok(<<>>, o + count)

skip_zero_padding(d, o, count) ==
    IF ~check_need(d, o, count) THEN Err("EndOfInput", o)
    ELSE IF ~IsZero(Slice(d, o, count)) THEN Err("NonZeroPadding", o)
    ELSE Ok(<<>>, o + count)

rewind(o, count) ==
    IF count > o THEN Err("RewindPastStart", o) ELSE Ok(<<>>, o - count)

-----------------------------------------------------------------------------
(* endian.rs: Encoder.  An encoder state is [ok, err, data, off]; a put on *)
(* a failed encoder is the `?` that returned before it: it changes         *)
(* nothing.                                                                *)

Encoder(buf) == [ok |-> TRUE, err |-> "None", data |-> buf, off |-> 0]

EncFail(enc, e) == [enc EXCEPT !.ok = FALSE, !.err = e]

Available(enc) == IF Len(enc.data) >= enc.off THEN Len(enc.data) - enc.off ELSE 0

put_bytes(enc, b) ==
    IF ~enc.ok THEN enc
    ELSE IF Available(enc) < Len(b) THEN EncFail(enc, "EndOfOutput")
    ELSE [enc EXCEPT !.data = Patch(enc.data, enc.off, b), !.off = enc.off + Len(b)]

put_u8(enc, b) == put_bytes(enc, <<b>>)

put_u16(enc, e, w) == put_bytes(enc, EndianEncode(e, w))

put_u64(enc, e, w) == put_bytes(enc, EndianEncode(e, w))

put_zero_padding(enc, length) == put_bytes(enc, Zeros(length))

-----------------------------------------------------------------------------
(* phys/dva.rs                                                             *)

Dva_LENGTH == 16

VDEV_MASK_SHIFTED == 16777215

ASIZE_MASK_SHIFTED == 16777215

Dva_from_decoder(d, o, e) ==
    LET ra == get_u64(d, o, e)
        rb == get_u64(d, o + 8, e)
        a  == ra.val
        b  == rb.val
    IN  IF ~ra.ok THEN Err("EndOfInput", ra.off)
        ELSE IF ~rb.ok THEN Err("EndOfInput", rb.off)
        ELSE IF IsZero(a) /\ IsZero(b)
             THEN Ok([vdev |-> 0, grid |-> 0, asize |-> 0,
                      offset |-> Zeros(8), is_gang |-> FALSE], o + 16)
        ELSE IF a[1] # 0 THEN Err("DvaNonZeroPadding", o + 16)
        ELSE Ok([vdev    |-> Num(SubSeq(a, 2, 4)),
                 grid    |-> a[5],
                 asize   |-> Num(SubSeq(a, 6, 8)),
                 offset  |-> [b EXCEPT ![1] = b[1] % 128],
                 is_gang |-> b[1] >= 128], o + 16)

\* Dva_to_encoder without the gang bit
Dva_to_encoder_gangless(dva, enc, e) ==
    IF ~enc.ok THEN enc
    ELSE IF dva.asize > ASIZE_MASK_SHIFTED THEN EncFail(enc, "InvalidAsize")
    ELSE IF dva.vdev > VDEV_MASK_SHIFTED THEN EncFail(enc, "InvalidVdev")
    ELSE IF dva.offset[1] >= 128 THEN EncFail(enc, "InvalidOffset")
    ELSE put_u64(put_u64(enc, e, <<0>> \o Numeral(dva.vdev, 3) \o <<dva.grid>>
                                      \o Numeral(dva.asize, 3)), e, dva.offset)

\* Dva_to_encoder that writes the first word before it checks the offset
Dva_to_encoder_late(dva, enc, e) ==
    IF ~enc.ok THEN enc
    ELSE IF dva.asize > ASIZE_MASK_SHIFTED THEN EncFail(enc, "InvalidAsize")
    ELSE IF dva.vdev > VDEV_MASK_SHIFTED THEN EncFail(enc, "InvalidVdev")
    ELSE IF dva.offset[1] >= 128
         THEN EncFail(put_u64(enc, e, <<0>> \o Numeral(dva.vdev, 3) \o <<dva.grid>>
                                          \o Numeral(dva.asize, 3)), "InvalidOffset")
    ELSE put_u64(put_u64(enc, e, <<0>> \o Numeral(dva.vdev, 3) \o <<dva.grid>>
                                      \o Numeral(dva.asize, 3)), e, dva.offset)

Dva_to_encoder(dva, enc, e) ==
    IF ~enc.ok THEN enc
    ELSE IF dva.asize > ASIZE_MASK_SHIFTED THEN EncFail(enc, "InvalidAsize")
    ELSE IF dva.vdev > VDEV_MASK_SHIFTED THEN EncFail(enc, "InvalidVdev")
    ELSE IF dva.offset[1] >= 128 THEN EncFail(enc, "InvalidOffset")
    ELSE LET a == <<0>> \o Numeral(dva.vdev, 3) \o <<dva.grid>> \o Numeral(dva.asize, 3)
             b == [dva.offset EXCEPT ![1] = dva.offset[1] + (IF dva.is_gang THEN 128 ELSE 0)]
         IN  put_u64(put_u64(enc, e, a), e, b)


-----------------------------------------------------------------------------
(* n consecutive `decoder.get_u64()?`: the words, or EndOfInput at the     *)
(* offset of the first read that does not fit.                             *)

get_u64s(d, o, e, n) ==
    IF check_need(d, o, 8 * n)
    THEN Ok([k \in 1..n |-> EndianDecode(e, Slice(d, o + 8 * (k - 1), 8))], o + 8 * n)
    ELSE Err("EndOfInput", o + 8 * (DecoderLen(d, o) \div 8))

RECURSIVE put_u64s(_, _, _)
put_u64s(enc, e, ws) ==
    IF Len(ws) = 0 THEN enc ELSE put_u64s(put_u64(enc, e, Head(ws)), e, Tail(ws))

-----------------------------------------------------------------------------
(* phys/dmu_type.rs, checksum_type.rs, compression_type.rs: an enumeration *)
(* value is its discriminant; try_from accepts the discriminants that      *)
(* exist.                                                                  *)

DmuType_MAX == 53

ChecksumType_MAX == 14

CompressionType_MAX == 16

BlockPointerEmbeddedType_MAX == 2

DmuType_try_from(b) == b <= DmuType_MAX

ChecksumType_try_from(b) == b <= ChecksumType_MAX

CompressionType_try_from(b) == b <= CompressionType_MAX

BlockPointerEmbeddedType_try_from(b) == b <= BlockPointerEmbeddedType_MAX

-----------------------------------------------------------------------------
(* phys/block_pointer.rs.  The flags word w: w[1] = bits 56..63 (level 5   *)
(* bits, encrypted 61, dedup 62, little endian 63), w[2] = DMU type,       *)
(* w[3] = checksum or embedded type, w[4] = bits 32..39 (compression,      *)
(* embedded 39), w[5..8] = the sizes.                                      *)

BlockPointer_LENGTH == 128

COMPRESSION_MASK_SHIFTED == 31

LEVEL_MASK_SHIFTED == 31

MAX_PAYLOAD_LENGTH == 112

FlagEmbedded(w) == Bit(w[4], 7) = 1

FlagEncrypted(w) == Bit(w[1], 5) = 1

FlagDedup(w) == Bit(w[1], 6) = 1

FlagEndian(w) == IF Bit(w[1], 7) = 1 THEN "Little" ELSE "Big"

FlagLevel(w) == w[1] % (LEVEL_MASK_SHIFTED + 1)

FlagCompression(w) == w[4] % (COMPRESSION_MASK_SHIFTED + 1)

BlockPointerRegular_from_decoder(d, o, e) ==
    LET d1 == Dva_from_decoder(d, o, e)
        d2 == Dva_from_decoder(d, o + 16, e)
        d3 == Dva_from_decoder(d, o + 32, e)
        rf == get_u64(d, o + 48, e)
        w  == rf.val
        rp == skip_zero_padding(d, o + 56, 16)
        rt == get_u64s(d, o + 72, e, 7)
    IN  IF ~d1.ok THEN d1
        ELSE IF ~d2.ok THEN d2
        ELSE IF ~d3.ok THEN d3
        ELSE IF ~rf.ok THEN rf
        ELSE IF FlagEmbedded(w) \/ FlagEncrypted(w) THEN Err("InvalidBlockPointerType", o + 56)
        ELSE IF ~DmuType_try_from(w[2]) THEN Err("DmuTypeError", o + 56)
        ELSE IF ~ChecksumType_try_from(w[3]) THEN Err("ChecksumTypeError", o + 56)
        ELSE IF ~CompressionType_try_from(FlagCompression(w)) THEN Err("CompressionTypeError", o + 56)
        ELSE IF ~rp.ok THEN rp
        ELSE IF ~rt.ok THEN rt
        ELSE Ok([variant            |-> "Regular",
                 checksum_type      |-> w[3],
                 checksum_value     |-> SubSeq(rt.val, 4, 7),
                 compression        |-> FlagCompression(w),
                 dedup              |-> FlagDedup(w),
                 dmu                |-> w[2],
                 dvas               |-> <<d1.val, d2.val, d3.val>>,
                 endian             |-> FlagEndian(w),
                 fill_count         |-> rt.val[3],
                 level              |-> FlagLevel(w),
                 logical_birth_txg  |-> rt.val[2],
                 logical_size       |-> Num(SubSeq(w, 7, 8)),
                 physical_birth_txg |-> rt.val[1],
                 physical_size      |-> Num(SubSeq(w, 5, 6))], o + 128)

BlockPointerRegular_to_encoder(p, enc, e) ==
    LET e3 == Dva_to_encoder(p.dvas[3], Dva_to_encoder(p.dvas[2], Dva_to_encoder(p.dvas[1], enc, e), e), e)
        flags == << p.level + (IF p.dedup THEN 64 ELSE 0) + (IF p.endian = "Little" THEN 128 ELSE 0),
                    p.dmu, p.checksum_type, p.compression >>
                 \o Numeral(p.physical_size, 2) \o Numeral(p.logical_size, 2)
    IN  IF ~e3.ok THEN e3
        ELSE IF p.level > LEVEL_MASK_SHIFTED THEN EncFail(e3, "InvalidLevel")
        ELSE put_u64s(put_zero_padding(put_u64(e3, e, flags), 16), e,
                      <<p.physical_birth_txg, p.logical_birth_txg, p.fill_count>> \o p.checksum_value)

BlockPointerEncrypted_from_decoder(d, o, e) ==
    LET d1 == Dva_from_decoder(d, o, e)
        d2 == Dva_from_decoder(d, o + 16, e)
        rs == get_u64s(d, o + 32, e, 3)
        w  == rs.val[3]
        rp == skip_zero_padding(d, o + 56, 16)
        rt == get_u64s(d, o + 72, e, 7)
    IN  IF ~d1.ok THEN d1
        ELSE IF ~d2.ok THEN d2
        ELSE IF ~rs.ok THEN rs
        ELSE IF FlagEmbedded(w) \/ ~FlagEncrypted(w) THEN Err("InvalidBlockPointerType", o + 56)
        ELSE IF ~DmuType_try_from(w[2]) THEN Err("DmuTypeError", o + 56)
        ELSE IF ~ChecksumType_try_from(w[3]) THEN Err("ChecksumTypeError", o + 56)
        ELSE IF ~CompressionType_try_from(FlagCompression(w)) THEN Err("CompressionTypeError", o + 56)
        ELSE IF ~rp.ok THEN rp
        ELSE IF ~rt.ok THEN rt
        ELSE Ok([variant            |-> "Encrypted",
                 checksum_type      |-> w[3],
                 checksum_value     |-> SubSeq(rt.val, 4, 5),
                 compression        |-> FlagCompression(w),
                 dedup              |-> FlagDedup(w),
                 dmu                |-> w[2],
                 dvas               |-> <<d1.val, d2.val>>,
                 endian             |-> FlagEndian(w),
                 fill_count         |-> SubSeq(rt.val[3], 5, 8),
                 iv_1               |-> rs.val[2],
                 iv_2               |-> SubSeq(rt.val[3], 1, 4),
                 level              |-> FlagLevel(w),
                 logical_birth_txg  |-> rt.val[2],
                 logical_size       |-> Num(SubSeq(w, 7, 8)),
                 mac                |-> SubSeq(rt.val, 6, 7),
                 physical_birth_txg |-> rt.val[1],
                 physical_size      |-> Num(SubSeq(w, 5, 6)),
                 salt               |-> rs.val[1]], o + 128)

\* BlockPointerEncrypted_to_encoder without the check of the level
BlockPointerEncrypted_to_encoder_any_level(p, enc, e) ==
    LET e2 == put_u64s(Dva_to_encoder(p.dvas[2], Dva_to_encoder(p.dvas[1], enc, e), e), e,
                       <<p.salt, p.iv_1>>)
        flags == << (p.level % 32) + 32 + (IF p.dedup THEN 64 ELSE 0)
                      + (IF p.endian = "Little" THEN 128 ELSE 0),
                    p.dmu, p.checksum_type, p.compression >>
                 \o Numeral(p.physical_size, 2) \o Numeral(p.logical_size, 2)
    IN  IF ~e2.ok THEN e2
        ELSE put_u64s(put_zero_padding(put_u64(e2, e, flags), 16), e,
                      <<p.physical_birth_txg, p.logical_birth_txg, p.iv_2 \o p.fill_count>>
                      \o p.checksum_value \o p.mac)

BlockPointerEncrypted_to_encoder(p, enc, e) ==
    LET e2 == put_u64s(Dva_to_encoder(p.dvas[2], Dva_to_encoder(p.dvas[1], enc, e), e), e,
                       <<p.salt, p.iv_1>>)
        flags == << p.level + 32 + (IF p.dedup THEN 64 ELSE 0)
                      + (IF p.endian = "Little" THEN 128 ELSE 0),
                    p.dmu, p.checksum_type, p.compression >>
                 \o Numeral(p.physical_size, 2) \o Numeral(p.logical_size, 2)
    IN  IF ~e2.ok THEN e2
        ELSE IF p.level > LEVEL_MASK_SHIFTED THEN EncFail(e2, "InvalidLevel")
        ELSE put_u64s(put_zero_padding(put_u64(e2, e, flags), 16), e,
                      <<p.physical_birth_txg, p.logical_birth_txg, p.iv_2 \o p.fill_count>>
                      \o p.checksum_value \o p.mac)

BlockPointerEmbedded_from_decoder(d, o, e) ==
    LET r1 == get_bytes(d, o, 48)
        rf == get_u64(d, o + 48, e)
        w  == rf.val
        r2 == get_bytes(d, o + 56, 24)
        rt == get_u64(d, o + 80, e)
        r3 == get_bytes(d, o + 88, 40)
        physical_size == w[5] \div 2
    IN  IF ~r1.ok THEN r1
        ELSE IF ~rf.ok THEN rf
        ELSE IF ~r2.ok THEN r2
        ELSE IF ~rt.ok THEN rt
        ELSE IF ~r3.ok THEN r3
        ELSE IF ~FlagEmbedded(w) \/ FlagEncrypted(w) THEN Err("InvalidBlockPointerType", o + 128)
        ELSE IF FlagDedup(w) THEN Err("InvalidDedupValue", o + 128)
        ELSE IF ~DmuType_try_from(w[2]) THEN Err("DmuTypeError", o + 128)
        ELSE IF ~BlockPointerEmbeddedType_try_from(w[3]) THEN Err("InvalidEmbeddedType", o + 128)
        ELSE IF ~CompressionType_try_from(FlagCompression(w)) THEN Err("CompressionTypeError", o + 128)
        ELSE IF physical_size > MAX_PAYLOAD_LENGTH THEN Err("InvalidEmbeddedLength", o + 128)
        ELSE Ok([variant           |-> "Embedded",
                 compression       |-> FlagCompression(w),
                 dmu               |-> w[2],
                 embedded_type     |-> w[3],
                 endian            |-> FlagEndian(w),
                 level             |-> FlagLevel(w),
                 logical_birth_txg |-> rt.val,
                 logical_size      |-> (w[5] % 2) * 16777216 + Num(SubSeq(w, 6, 8)),
                 payload           |-> r1.val \o r2.val \o r3.val,
                 physical_size     |-> physical_size], o + 128)

BlockPointerEmbedded_to_encoder(p, enc, e) ==
    LET e1 == put_bytes(enc, SubSeq(p.payload, 1, 48))
        flags == << p.level + (IF p.endian = "Little" THEN 128 ELSE 0),
                    p.dmu, p.embedded_type, p.compression + 128,
                    2 * p.physical_size + (p.logical_size \div 16777216) >>
                 \o Numeral(p.logical_size % 16777216, 3)
    IN  IF ~enc.ok THEN enc
        ELSE IF p.physical_size > MAX_PAYLOAD_LENGTH THEN EncFail(enc, "InvalidEmbeddedLength")
        ELSE IF ~e1.ok THEN e1
        ELSE IF p.level > LEVEL_MASK_SHIFTED THEN EncFail(e1, "InvalidLevel")
        ELSE IF p.logical_size > 33554431 THEN EncFail(e1, "InvalidLogicalSize")
        ELSE put_bytes(put_u64(put_bytes(put_u64(e1, e, flags), SubSeq(p.payload, 49, 72)),
                               e, p.logical_birth_txg), SubSeq(p.payload, 73, 112))

\* BlockPointer_from_decoder with the Regular and Encrypted arms exchanged
BlockPointer_from_decoder_swapped(d, o, e) ==
    LET r1 == skip(d, o, 3 * Dva_LENGTH)
        rf == get_u64(d, r1.off, e)
        r3 == rewind(rf.off, 3 * Dva_LENGTH + 8)
        embedded  == FlagEmbedded(rf.val)
        encrypted == FlagEncrypted(rf.val)
    IN  IF ~r1.ok THEN r1
        ELSE IF ~rf.ok THEN rf
        ELSE IF ~r3.ok THEN r3
        ELSE IF ~embedded /\ ~encrypted THEN BlockPointerEncrypted_from_decoder(d, r3.off, e)
        ELSE IF ~embedded /\ encrypted THEN BlockPointerRegular_from_decoder(d, r3.off, e)
        ELSE IF embedded /\ ~encrypted THEN BlockPointerEmbedded_from_decoder(d, r3.off, e)
        ELSE Err("InvalidBlockPointerType", r3.off)

BlockPointer_from_decoder(d, o, e) ==
    LET r1 == skip(d, o, 3 * Dva_LENGTH)
        rf == get_u64(d, r1.off, e)
        r3 == rewind(rf.off, 3 * Dva_LENGTH + 8)
        embedded  == FlagEmbedded(rf.val)
        encrypted == FlagEncrypted(rf.val)
    IN  IF ~r1.ok THEN r1
        ELSE IF ~rf.ok THEN rf
        ELSE IF ~r3.ok THEN r3
        ELSE IF ~embedded /\ ~encrypted THEN BlockPointerRegular_from_decoder(d, r3.off, e)
        ELSE IF ~embedded /\ encrypted THEN BlockPointerEncrypted_from_decoder(d, r3.off, e)
        ELSE IF embedded /\ ~encrypted THEN BlockPointerEmbedded_from_decoder(d, r3.off, e)
        ELSE Err("InvalidBlockPointerType", r3.off)

BlockPointer_to_encoder(p, enc, e) ==
    IF p.variant = "Embedded" THEN BlockPointerEmbedded_to_encoder(p, enc, e)
    ELSE IF p.variant = "Encrypted" THEN BlockPointerEncrypted_to_encoder(p, enc, e)
    ELSE BlockPointerRegular_to_encoder(p, enc, e)


-----------------------------------------------------------------------------
(* phys/dnode.rs.  A Dnode value keeps the decoded fields; its tail is     *)
(* [kind, ptrs, bonus] and, for the Spill kind, spill.                     *)

Dnode_LENGTH == 512

DNODE_FLAG_USED_BYTES == 1

DNODE_FLAG_USER_USED_ACCOUNTED == 2

DNODE_FLAG_SPILL_BLOCK_POINTER == 4

DNODE_FLAG_USER_OBJ_USED_ACCOUNTED == 8

DNODE_FLAG_ALL == 15

\* Dnode_from_head without the check of the pointer count of a spill
Dnode_from_head_any_count(d, o) ==
    IF ~check_need(d, o, 1) THEN Err("EndOfInput", o)
    ELSE IF ~DmuType_try_from(d[o + 1]) THEN Err("DmuTypeError", o + 1)
    ELSE IF ~check_need(d, o, 5) THEN Err("EndOfInput", o + DecoderLen(d, o))
    ELSE IF ~DmuType_try_from(d[o + 5]) THEN Err("DmuTypeError", o + 5)
    ELSE IF ~check_need(d, o, 6) THEN Err("EndOfInput", o + 5)
    ELSE IF ~ChecksumType_try_from(d[o + 6]) THEN Err("ChecksumTypeError", o + 6)
    ELSE IF ~check_need(d, o, 7) THEN Err("EndOfInput", o + 6)
    ELSE IF ~CompressionType_try_from(d[o + 7]) THEN Err("CompressionTypeError", o + 7)
    ELSE IF ~check_need(d, o, 8) THEN Err("EndOfInput", o + 7)
    ELSE IF Bit(d[o + 8], 4) + Bit(d[o + 8], 5) + Bit(d[o + 8], 6) + Bit(d[o + 8], 7) # 0
         THEN Err("InvalidFlags", o + 8)
    ELSE Ok([dmu |-> d[o + 1], indirect_block_shift |-> d[o + 2], levels |-> d[o + 3],
             block_pointers_n |-> d[o + 4], bonus_type |-> d[o + 5], checksum |-> d[o + 6],
             compression |-> d[o + 7], flags |-> d[o + 8]], o + 8)

\* the first eight bytes: DMU type, indirect block shift, levels, number of
\* block pointers, bonus type, checksum, compression, flags
Dnode_from_head(d, o) ==
    IF ~check_need(d, o, 1) THEN Err("EndOfInput", o)
    ELSE IF ~DmuType_try_from(d[o + 1]) THEN Err("DmuTypeError", o + 1)
    ELSE IF ~check_need(d, o, 5) THEN Err("EndOfInput", o + DecoderLen(d, o))
    ELSE IF ~DmuType_try_from(d[o + 5]) THEN Err("DmuTypeError", o + 5)
    ELSE IF ~check_need(d, o, 6) THEN Err("EndOfInput", o + 5)
    ELSE IF ~ChecksumType_try_from(d[o + 6]) THEN Err("ChecksumTypeError", o + 6)
    ELSE IF ~check_need(d, o, 7) THEN Err("EndOfInput", o + 6)
    ELSE IF ~CompressionType_try_from(d[o + 7]) THEN Err("CompressionTypeError", o + 7)
    ELSE IF ~check_need(d, o, 8) THEN Err("EndOfInput", o + 7)
    ELSE IF Bit(d[o + 8], 4) + Bit(d[o + 8], 5) + Bit(d[o + 8], 6) + Bit(d[o + 8], 7) # 0
         THEN Err("InvalidFlags", o + 8)
    ELSE IF Bit(d[o + 8], 2) = 1 /\ d[o + 4] # 1
         THEN Err("InvalidSpillBlockPointerCount", o + 8)
    ELSE Ok([dmu |-> d[o + 1], indirect_block_shift |-> d[o + 2], levels |-> d[o + 3],
             block_pointers_n |-> d[o + 4], bonus_type |-> d[o + 5], checksum |-> d[o + 6],
             compression |-> d[o + 7], flags |-> d[o + 8]], o + 8)

\* block size sectors, bonus length, extra slots, padding, max block id,
\* used, padding
Dnode_from_sizes(d, o, e) ==
    IF ~get_u16(d, o, e).ok THEN Err("EndOfInput", o)
    ELSE IF ~get_u16(d, o + 2, e).ok THEN Err("EndOfInput", o + 2)
    ELSE IF ~get_u8(d, o + 4).ok THEN Err("EndOfInput", o + 4)
    ELSE IF ~skip_zero_padding(d, o + 5, 3).ok THEN skip_zero_padding(d, o + 5, 3)
    ELSE IF ~get_u64(d, o + 8, e).ok THEN Err("EndOfInput", o + 8)
    ELSE IF ~get_u64(d, o + 16, e).ok THEN Err("EndOfInput", o + 16)
    ELSE IF ~skip_zero_padding(d, o + 24, 32).ok THEN skip_zero_padding(d, o + 24, 32)
    ELSE Ok([data_block_size_sectors |-> get_u16(d, o, e).val,
             bonus_len |-> get_u16(d, o + 2, e).val,
             extra_slots |-> get_u8(d, o + 4).val,
             max_block_id |-> get_u64(d, o + 8, e).val,
             used |-> get_u64(d, o + 16, e).val], o + 56)

\* one more block pointer after the pointers prev
Dnode_from_ptr(prev, bp) ==
    IF ~bp.ok THEN [ok |-> FALSE, err |-> "BlockPointerDecodeError", cause |-> bp.err,
                    off |-> bp.off]
    ELSE Ok(Append(prev.val, bp.val), bp.off)

Dnode_from_next(prev, d, e) ==
    IF ~prev.ok THEN prev
    ELSE Dnode_from_ptr(prev, BlockPointer_from_decoder(d, prev.off, e))

\* n block pointers, one after the other
RECURSIVE Dnode_from_ptrs(_, _, _, _)
Dnode_from_ptrs(d, o, e, n) ==
    IF n = 0 THEN Ok(<<>>, o) ELSE Dnode_from_next(Dnode_from_ptrs(d, o, e, n - 1), d, e)

\* Dnode_bonus_size with the bonus of a tail of three pointers after two
Dnode_bonus_size_two_short(n, is_spill) ==
    IF n = 0 THEN 448 ELSE IF n = 1 /\ is_spill THEN 192 ELSE IF n = 1 THEN 320 ELSE 64

\* the bonus length of each tail
Dnode_bonus_size(n, is_spill) ==
    IF n = 0 THEN 448 ELSE IF n = 1 /\ is_spill THEN 192 ELSE IF n = 1 THEN 320
    ELSE IF n = 2 THEN 192 ELSE 64

Dnode_tail_kind(n, is_spill) ==
    IF n = 0 THEN "Zero" ELSE IF n = 1 /\ is_spill THEN "Spill" ELSE IF n = 1 THEN "One"
    ELSE IF n = 2 THEN "Two" ELSE "Three"

\* the spill block pointer that ends a Spill tail
Dnode_from_spill(kind, ptrs, bonus, spill) ==
    IF ~spill.ok THEN [ok |-> FALSE, err |-> "BlockPointerDecodeError", cause |-> spill.err,
                       off |-> spill.off]
    ELSE Ok([kind |-> kind, ptrs |-> ptrs.val, bonus |-> bonus.val, spill |-> spill.val],
            spill.off)

Dnode_from_bonus(d, e, kind, ptrs, bonus) ==
    IF ~bonus.ok THEN bonus
    ELSE IF kind = "Spill"
         THEN Dnode_from_spill(kind, ptrs, bonus, BlockPointer_from_decoder(d, bonus.off, e))
    ELSE Ok([kind |-> kind, ptrs |-> ptrs.val, bonus |-> bonus.val], bonus.off)

Dnode_from_tail(d, e, n, is_spill, ptrs) ==
    IF ~ptrs.ok THEN ptrs
    ELSE Dnode_from_bonus(d, e, Dnode_tail_kind(n, is_spill), ptrs,
                          get_bytes(d, ptrs.off, Dnode_bonus_size(n, is_spill)))

\* the checks and the value that end Dnode::from_decoder
Dnode_from_parts(h, m, tail) ==
    IF ~tail.ok THEN tail
    ELSE IF Num(m.bonus_len) > Len(tail.val.bonus) THEN Err("InvalidBonusLength", tail.off)
    ELSE Ok([bonus_len |-> m.bonus_len, bonus_type |-> h.bonus_type,
             checksum |-> h.checksum, compression |-> h.compression,
             data_block_size_sectors |-> m.data_block_size_sectors, dmu |-> h.dmu,
             extra_slots |-> m.extra_slots, flags |-> h.flags,
             indirect_block_shift |-> h.indirect_block_shift, levels |-> h.levels,
             max_block_id |-> m.max_block_id, tail |-> tail.val, used |-> m.used,
             used_is_bytes |-> Bit(h.flags, 0) = 1,
             user_obj_used_accounted |-> Bit(h.flags, 3) = 1,
             user_used_accounted |-> Bit(h.flags, 1) = 1], tail.off)

Dnode_from_middle(d, e, h, m) ==
    IF ~m.ok THEN m
    ELSE IF h.val.block_pointers_n > 3 THEN Err("InvalidBlockPointerCount", m.off)
    ELSE Dnode_from_parts(h.val, m.val,
             Dnode_from_tail(d, e, h.val.block_pointers_n, Bit(h.val.flags, 2) = 1,
                 Dnode_from_ptrs(d, m.off, e, h.val.block_pointers_n)))

Dnode_from_flags(d, e, h) ==
    IF ~h.ok THEN h ELSE Dnode_from_middle(d, e, h, Dnode_from_sizes(d, h.off, e))

Dnode_from_decoder(d, o, e) == Dnode_from_flags(d, e, Dnode_from_head(d, o))

pointers(dn) == dn.tail.ptrs

bonus_capacity(dn) == dn.tail.bonus

RECURSIVE Dnode_to_ptrs(_, _, _)
Dnode_to_ptrs(ptrs, enc, e) ==
    IF Len(ptrs) = 0 THEN enc
    ELSE Dnode_to_ptrs(Tail(ptrs), BlockPointer_to_encoder(Head(ptrs), enc, e), e)

\* the spill block pointer of a Spill tail
Dnode_to_spill(dn, enc, e) ==
    IF dn.tail.kind = "Spill" THEN BlockPointer_to_encoder(dn.tail.spill, enc, e) ELSE enc

\* Dnode::to_encoder from the bonus length on
Dnode_to_bonus(dn, enc, e) ==
    IF ~enc.ok THEN enc
    ELSE IF Num(dn.bonus_len) > Len(bonus_capacity(dn)) THEN EncFail(enc, "InvalidBonusLength")
    ELSE Dnode_to_spill(dn,
             put_bytes(
                 Dnode_to_ptrs(pointers(dn),
                     put_zero_padding(
                         put_u64s(
                             put_zero_padding(
                                 put_u8(put_u16(enc, e, dn.bonus_len), dn.extra_slots), 3),
                             e, <<dn.max_block_id, dn.used>>),
                         32),
                     e),
                 bonus_capacity(dn)),
             e)

Dnode_to_flags(dn) ==
    (IF dn.used_is_bytes THEN DNODE_FLAG_USED_BYTES ELSE 0)
    + (IF dn.user_used_accounted THEN DNODE_FLAG_USER_USED_ACCOUNTED ELSE 0)
    + (IF dn.user_obj_used_accounted THEN DNODE_FLAG_USER_OBJ_USED_ACCOUNTED ELSE 0)
    + (IF dn.tail.kind = "Spill" THEN DNODE_FLAG_SPILL_BLOCK_POINTER ELSE 0)

\* the eight one-byte puts that open Dnode::to_encoder
RECURSIVE put_u8s(_, _)
put_u8s(enc, bs) == IF Len(bs) = 0 THEN enc ELSE put_u8s(put_u8(enc, Head(bs)), Tail(bs))

Dnode_to_encoder(dn, enc, e) ==
    Dnode_to_bonus(dn,
        put_u16(put_u8s(enc, <<dn.dmu, dn.indirect_block_shift, dn.levels, Len(pointers(dn)),
                               dn.bonus_type, dn.checksum, dn.compression, Dnode_to_flags(dn)>>),
                e, dn.data_block_size_sectors),
        e)

-----------------------------------------------------------------------------
(* checksum/sha256.rs.  SHA-256 is an external digest, modelled as a       *)
(* collision-free function (a random oracle): reg is the sequence of the   *)
(* distinct messages digested so far, a message's digest is decided by its *)
(* position in reg, and distinct positions have distinct digests.          *)

ShaKnown(reg, msg) == \E i \in 1..Len(reg) : reg[i] = msg

ShaId(reg, msg) ==
    IF ShaKnown(reg, msg) THEN CHOOSE i \in 1..Len(reg) : reg[i] = msg ELSE Len(reg) + 1

ShaAfter(reg, msg) == IF ShaKnown(reg, msg) THEN reg ELSE Append(reg, msg)

\* a digest that collides on every pair of messages
Sha256_colliding(id) == [i \in 1..32 |-> (37 + 11 * i) % 256]

\* the 32 digest bytes of the id-th message
Sha256(id) == [i \in 1..32 |-> (37 * id + 11 * i) % 256]

digest_to_zfs_u64(digest) ==
    [j \in 1..4 |-> from_be_bytes(SubSeq(digest, 8 * j - 7, 8 * j - 4))
                    \o from_be_bytes(SubSeq(digest, 8 * j - 3, 8 * j))]

sha_256_digest(reg, msg) == digest_to_zfs_u64(Sha256(ShaId(reg, msg)))

-----------------------------------------------------------------------------
(* endian.rs: Decoder::from_u64_magic.  The result's val is the endian, its *)
(* off the offset of the new decoder.                                       *)

from_u64_magic(d, magic) ==
    LET r == get_u64(d, 0, "Little")
        swapped == swap_bytes(r.val)
    IN  IF ~r.ok THEN [ok |-> FALSE, err |-> "EndOfInput", off |-> 0, actual |-> <<>>]
        ELSE IF r.val = magic THEN [ok |-> TRUE, err |-> "None", val |-> "Little", off |-> 8]
        ELSE IF swapped = magic THEN [ok |-> TRUE, err |-> "None", val |-> "Big", off |-> 8]
        ELSE [ok |-> FALSE, err |-> "InvalidMagic", off |-> 8, actual |-> to_le_bytes(swapped)]

-----------------------------------------------------------------------------
(* checksum/label.rs                                                       *)

LABEL_LENGTH == 40

LABEL_MAGIC == <<2, 16, 218, 122, 177, 12, 122, 17>>

\* label_checksum that writes the checksum words big endian in any endian
label_checksum_big(buf, off, e, reg) ==
    LET length == Len(buf)
        tail   == put_u64s(Encoder(Slice(buf, length - LABEL_LENGTH, LABEL_LENGTH)), e,
                           <<LABEL_MAGIC, off, Zeros(8), Zeros(8), Zeros(8)>>)
        filled == Patch(buf, length - LABEL_LENGTH, tail.data)
        checksum == sha_256_digest(reg, filled)
        words  == put_u64s(Encoder(Slice(filled, length - 32, 32)), "Big", checksum)
    IN  IF length < LABEL_LENGTH
        THEN [ok |-> FALSE, err |-> "InvalidLength", data |-> buf, sha |-> reg]
        ELSE [ok |-> TRUE, err |-> "None", data |-> Patch(filled, length - 32, words.data),
              sha |-> ShaAfter(reg, filled)]

\* the result is [ok, err, data, sha]: the buffer and the digest history after the call
label_checksum(buf, off, e, reg) ==
    LET length == Len(buf)
        tail   == put_u64s(Encoder(Slice(buf, length - LABEL_LENGTH, LABEL_LENGTH)), e,
                           <<LABEL_MAGIC, off, Zeros(8), Zeros(8), Zeros(8)>>)
        filled == Patch(buf, length - LABEL_LENGTH, tail.data)
        checksum == sha_256_digest(reg, filled)
        words  == put_u64s(Encoder(Slice(filled, length - 32, 32)), e, checksum)
    IN  IF length < LABEL_LENGTH
        THEN [ok |-> FALSE, err |-> "InvalidLength", data |-> buf, sha |-> reg]
        ELSE [ok |-> TRUE, err |-> "None", data |-> Patch(filled, length - 32, words.data),
              sha |-> ShaAfter(reg, filled)]

\* label_verify that leaves the offset out of the digest
label_verify_unsalted(buf, off, reg) ==
    LET length == Len(buf)
        tail   == Slice(buf, length - LABEL_LENGTH, LABEL_LENGTH)
        dec    == from_u64_magic(tail, LABEL_MAGIC)
        data_checksum == get_u64s(tail, dec.off, dec.val, 4)
        msg    == SubSeq(buf, 1, length - 32) \o Zeros(32)
        computed_checksum == sha_256_digest(reg, msg)
    IN  IF length < LABEL_LENGTH THEN [ok |-> FALSE, err |-> "InvalidLength", sha |-> reg]
        ELSE IF ~dec.ok /\ dec.err = "InvalidMagic" /\ IsZero(dec.actual)
             THEN [ok |-> FALSE, err |-> "EmptyMagic", sha |-> reg]
        ELSE IF ~dec.ok THEN [ok |-> FALSE, err |-> "EndianDecodeError", sha |-> reg]
        ELSE IF ~data_checksum.ok THEN [ok |-> FALSE, err |-> "EndianDecodeError", sha |-> reg]
        ELSE IF data_checksum.val = computed_checksum
             THEN [ok |-> TRUE, err |-> "None", sha |-> ShaAfter(reg, msg)]
        ELSE [ok |-> FALSE, err |-> "Mismatch", sha |-> ShaAfter(reg, msg)]

\* the result is [ok, err, sha]
label_verify(buf, off, reg) ==
    LET length == Len(buf)
        tail   == Slice(buf, length - LABEL_LENGTH, LABEL_LENGTH)
        dec    == from_u64_magic(tail, LABEL_MAGIC)
        data_checksum == get_u64s(tail, dec.off, dec.val, 4)
        offset_checksum == put_u64s(Encoder(Zeros(32)), dec.val, <<off, Zeros(8), Zeros(8), Zeros(8)>>)
        msg    == SubSeq(buf, 1, length - 32) \o offset_checksum.data
        computed_checksum == sha_256_digest(reg, msg)
    IN  IF length < LABEL_LENGTH THEN [ok |-> FALSE, err |-> "InvalidLength", sha |-> reg]
        ELSE IF ~dec.ok /\ dec.err = "InvalidMagic" /\ IsZero(dec.actual)
             THEN [ok |-> FALSE, err |-> "EmptyMagic", sha |-> reg]
        ELSE IF ~dec.ok THEN [ok |-> FALSE, err |-> "EndianDecodeError", sha |-> reg]
        ELSE IF ~data_checksum.ok THEN [ok |-> FALSE, err |-> "EndianDecodeError", sha |-> reg]
        ELSE IF data_checksum.val = computed_checksum
             THEN [ok |-> TRUE, err |-> "None", sha |-> ShaAfter(reg, msg)]
        ELSE [ok |-> FALSE, err |-> "Mismatch", sha |-> ShaAfter(reg, msg)]

-----------------------------------------------------------------------------
(* phys/uber_block.rs                                                      *)

UberBlock_LENGTH == 1024

PADDING_SIZE == 776

UberBlock_MAGIC == <<0, 0, 0, 0, 0, 186, 177, 12>>

MMP_MAGIC == <<0, 0, 0, 0, 161, 28, 234, 17>>

UbErr(e, cause, o, reg) == [ok |-> FALSE, err |-> e, cause |-> cause, off |-> o, sha |-> reg]

\* UberBlock::from_bytes, from the zero padding on: f holds version, txg,
\* guid_sum and timestamp, g the software version and the three MMP words
UberBlock_from_padding(reg, e, f, bp, g, checkpoint_txg, pad) ==
    IF ~pad.ok THEN UbErr("EndianDecodeError", pad.err, pad.off, reg)
    ELSE [ok |-> TRUE, err |-> "None", cause |-> "None", off |-> pad.off, sha |-> reg,
          val |-> [checkpoint_txg |-> checkpoint_txg.val, endian |-> e,
                   guid_sum |-> f.val[3],
                   mmp |-> IF g.val[2] = MMP_MAGIC
                           THEN [some |-> TRUE, delay |-> g.val[3], config |-> g.val[4]]
                           ELSE [some |-> FALSE, delay |-> Zeros(8), config |-> Zeros(8)],
                   ptr |-> bp.val, software_version |-> g.val[1],
                   timestamp |-> f.val[4], txg |-> f.val[2], version |-> f.val[1]]]

\* from the checkpoint transaction group on
UberBlock_from_checkpoint(bytes, reg, e, f, bp, g, checkpoint_txg) ==
    IF ~checkpoint_txg.ok
    THEN UbErr("EndianDecodeError", checkpoint_txg.err, checkpoint_txg.off, reg)
    ELSE UberBlock_from_padding(reg, e, f, bp, g, checkpoint_txg,
                                skip_zero_padding(bytes, checkpoint_txg.off, PADDING_SIZE))

\* from the software version and the MMP words on
UberBlock_from_mmp(bytes, reg, e, f, bp, g) ==
    IF ~g.ok THEN UbErr("EndianDecodeError", g.err, g.off, reg)
    ELSE IF IsZero(g.val[2]) /\ ~(IsZero(g.val[3]) /\ IsZero(g.val[4]))
         THEN UbErr("NonZeroMmpValues", "None", g.off, reg)
    ELSE IF ~IsZero(g.val[2]) /\ g.val[2] # MMP_MAGIC
         THEN UbErr("InvalidMmpMagic", "None", g.off, reg)
    ELSE UberBlock_from_checkpoint(bytes, reg, e, f, bp, g, get_u64(bytes, g.off, e))

\* from the block pointer on
UberBlock_from_ptr(bytes, reg, e, f, bp) ==
    IF ~bp.ok THEN UbErr("BlockPointerDecodeError", bp.err, bp.off, reg)
    ELSE UberBlock_from_mmp(bytes, reg, e, f, bp, get_u64s(bytes, bp.off, e, 4))

\* from the fields after the magic on
UberBlock_from_fields(bytes, reg, e, f) ==
    IF ~f.ok THEN UbErr("EndianDecodeError", f.err, f.off, reg)
    ELSE UberBlock_from_ptr(bytes, reg, e, f, BlockPointer_from_decoder(bytes, f.off, e))

\* UberBlock::from_bytes that reads the magic before it verifies the label
UberBlock_from_magic_first(bytes, v, dec) ==
    IF ~dec.ok THEN UbErr("EndianDecodeError", dec.err, dec.off, v.sha)
    ELSE IF ~v.ok THEN UbErr("LabelVerifyError", v.err, 0, v.sha)
    ELSE UberBlock_from_fields(bytes, v.sha, dec.val, get_u64s(bytes, dec.off, dec.val, 4))

\* from the magic on: v is the result of label_verify
UberBlock_from_magic(bytes, v, dec) ==
    IF ~v.ok THEN UbErr("LabelVerifyError", v.err, 0, v.sha)
    ELSE IF ~dec.ok THEN UbErr("EndianDecodeError", dec.err, dec.off, v.sha)
    ELSE UberBlock_from_fields(bytes, v.sha, dec.val, get_u64s(bytes, dec.off, dec.val, 4))

\* the result is [ok, err, cause, val, off, sha]; off is the offset of the decoder
UberBlock_from_bytes(bytes, off, reg) ==
    UberBlock_from_magic(bytes, label_verify(bytes, off, reg),
                         from_u64_magic(bytes, UberBlock_MAGIC))

\* the result of UberBlock::to_bytes: c is the result of label_checksum
UberBlock_to_checksum(enc, c) ==
    IF ~enc.ok
    THEN [ok |-> FALSE, err |-> enc.err, data |-> enc.data, off |-> enc.off, sha |-> c.sha]
    ELSE [ok |-> c.ok, err |-> c.err, data |-> c.data, off |-> enc.off, sha |-> c.sha]

\* the label checksum over the encoded bytes, when every put succeeded
UberBlock_to_label(ub, enc, off, reg) ==
    UberBlock_to_checksum(enc, IF enc.ok THEN label_checksum(enc.data, off, ub.endian, reg)
                               ELSE [sha |-> reg])

\* the MMP words, the checkpoint transaction group and the padding
UberBlock_to_mmp(ub, enc) ==
    put_zero_padding(
        put_u64(IF ub.mmp.some
                THEN put_u64s(enc, ub.endian, <<MMP_MAGIC, ub.mmp.delay, ub.mmp.config>>)
                ELSE put_zero_padding(enc, 24),
                ub.endian, ub.checkpoint_txg),
        PADDING_SIZE)

\* the result is [ok, err, data, off, sha]
UberBlock_to_bytes(ub, bytes, off, reg) ==
    UberBlock_to_label(ub,
        UberBlock_to_mmp(ub,
            put_u64(BlockPointer_to_encoder(ub.ptr,
                        put_u64s(Encoder(bytes), ub.endian,
                                 <<UberBlock_MAGIC, ub.version, ub.txg, ub.guid_sum,
                                   ub.timestamp>>),
                        ub.endian),
                    ub.endian, ub.software_version)),
        off, reg)

-----------------------------------------------------------------------------
(* checksum/fletcher.rs, checksum/sha512.rs, checksum/block.rs.  A call     *)
(* that reaches todo!() panics: its outcome is written err = "Panic",      *)
(* which is not a value the call returns.                                  *)

\* the bytes of a sum given in limbs of 24, 24 and 16 bits, each limb with
\* its carry, modulo 2^64
AddLimbs(lo, mid, hi) ==
    LET m == mid + lo \div 16777216
        h == hi + m \div 16777216
    IN  << (h \div 256) % 256, h % 256,
           (m \div 65536) % 256, (m \div 256) % 256, m % 256,
           (lo \div 65536) % 256, (lo \div 256) % 256, lo % 256 >>

\* x + y modulo 2^64
wrapping_add(x, y) ==
    AddLimbs(65536 * (x[6] + y[6]) + 256 * (x[7] + y[7]) + x[8] + y[8],
             65536 * (x[3] + y[3]) + 256 * (x[4] + y[4]) + x[5] + y[5],
             256 * (x[1] + y[1]) + x[2] + y[2])

\* the loop body of fletcher_2: checksum[0] and checksum[1] are assigned
\* before checksum[2] and checksum[3] read them
fletcher_2_update(c, x, y) ==
    CHOOSE checksum \in
        { <<a, b, wrapping_add(c[3], a), wrapping_add(c[4], b)>> :
          a \in {wrapping_add(c[1], x)}, b \in {wrapping_add(c[2], y)} } : TRUE

\* the checksum after the first n chunks of 16 bytes
RECURSIVE fletcher_2(_, _, _)
fletcher_2(d, e, n) ==
    IF n = 0 THEN <<Zeros(8), Zeros(8), Zeros(8), Zeros(8)>>
    ELSE CHOOSE checksum \in
             { fletcher_2_update(c, x, y) :
               c \in {fletcher_2(d, e, n - 1)},
               x \in {EndianDecode(e, Slice(d, 16 * (n - 1), 8))},
               y \in {EndianDecode(e, Slice(d, 16 * (n - 1) + 8, 8))} } : TRUE

fletcher_2_be(d) == fletcher_2(d, "Big", Len(d) \div 16)

fletcher_2_le(d) == fletcher_2(d, "Little", Len(d) \div 16)

\* the loop body of fletcher_4, one assignment after the other:
\* checksum[3] = checksum[2] + checksum[3]
fletcher_4_3(a, b, c, d) == <<a, b, c, wrapping_add(c, d)>>

\* checksum[2] = checksum[1] + checksum[2]
fletcher_4_2(a, b, c, d) ==
    CHOOSE checksum \in { fletcher_4_3(a, b, s, d) : s \in {wrapping_add(b, c)} } : TRUE

\* checksum[1] = checksum[0] + checksum[1]
fletcher_4_1(a, b, c, d) ==
    CHOOSE checksum \in { fletcher_4_2(a, s, c, d) : s \in {wrapping_add(a, b)} } : TRUE

\* checksum[0] = checksum[0] + value
fletcher_4_update(c, v) ==
    CHOOSE checksum \in
        { fletcher_4_1(s, c[2], c[3], c[4]) : s \in {wrapping_add(c[1], v)} } : TRUE

\* the checksum after the first n chunks of 4 bytes
RECURSIVE fletcher_4(_, _, _)
fletcher_4(d, e, n) ==
    IF n = 0 THEN <<Zeros(8), Zeros(8), Zeros(8), Zeros(8)>>
    ELSE CHOOSE checksum \in
             { fletcher_4_update(c, v) :
               c \in {fletcher_4(d, e, n - 1)},
               v \in {Zeros(4) \o EndianDecode(e, Slice(d, 4 * (n - 1), 4))} } : TRUE

fletcher_4_be(d) == fletcher_4(d, "Big", Len(d) \div 4)

fletcher_4_le(d) == fletcher_4(d, "Little", Len(d) \div 4)

\* the 32 digest bytes SHA-512/256 gives the id-th message: as Sha256, an
\* external digest, collision-free, and another function than SHA-256
Sha512_256(id) == [i \in 1..32 |-> (41 * id + 13 * i + 101) % 256]

sha_512_256_digest(reg, msg) ==
    [j \in 1..4 |-> from_be_bytes(SubSeq(Sha512_256(ShaId(reg, msg)), 8 * j - 7, 8 * j))]

Fletcher2 == 6

Fletcher4 == 7

ChecksumSha256 == 8

ChecksumSha512_256 == 11

\* the words of the match in block_checksum and block_verify; the result
\* is [ok, err, val, sha]
block_words(d, e, checksum_type, reg) ==
    IF checksum_type = Fletcher2
    THEN [ok |-> TRUE, err |-> "None", sha |-> reg,
          val |-> IF e = "Little" THEN fletcher_2_le(d) ELSE fletcher_2_be(d)]
    ELSE IF checksum_type = Fletcher4
    THEN [ok |-> TRUE, err |-> "None", sha |-> reg,
          val |-> IF e = "Little" THEN fletcher_4_le(d) ELSE fletcher_4_be(d)]
    ELSE IF checksum_type = ChecksumSha256
    THEN [ok |-> TRUE, err |-> "None", sha |-> ShaAfter(reg, d), val |-> sha_256_digest(reg, d)]
    ELSE IF checksum_type = ChecksumSha512_256
    THEN [ok |-> TRUE, err |-> "None", sha |-> ShaAfter(reg, d),
          val |-> sha_512_256_digest(reg, d)]
    ELSE [ok |-> FALSE, err |-> "Panic", sha |-> reg]

block_checksum(d, e, checksum_type, reg) == block_words(d, e, checksum_type, reg)

block_compare(computed, checksum_value) ==
    IF ~computed.ok THEN computed
    ELSE IF computed.val = checksum_value THEN [ok |-> TRUE, err |-> "None", sha |-> computed.sha]
    ELSE [ok |-> FALSE, err |-> "Mismatch", sha |-> computed.sha]

block_verify(d, e, checksum_type, checksum_value, reg) ==
    block_compare(block_words(d, e, checksum_type, reg), checksum_value)

-----------------------------------------------------------------------------
(* nv.rs: the header of an NV list, Decoder::from_bytes and from_partial.  *)
(* xdr.rs: an XDR u32 is four bytes, big endian.                           *)

NvNative == 0

NvXdr == 1

Encoding_from_u8(b) == b \in {NvNative, NvXdr}

Unique_from_u32(w) == w \in {<<0, 0, 0, 0>>, <<0, 0, 0, 1>>, <<0, 0, 0, 2>>}

xdr_get_u32(d, o) ==
    IF ~check_need(d, o, 4) THEN Err("EndOfInput", o) ELSE Ok(from_be_bytes(Slice(d, o, 4)), o + 4)

\* the flags of from_partial: d is the list after its header
nv_from_flags(encoding, e, flags) ==
    IF ~flags.ok THEN flags
    ELSE IF flags.val[1] # 0 \/ flags.val[2] # 0 \/ flags.val[3] # 0 \/ flags.val[4] \div 4 # 0
         THEN Err("InvalidFlags", flags.off)
    ELSE IF ~Unique_from_u32(flags.val) THEN Err("InvalidFlags", flags.off)
    ELSE Ok([encoding |-> encoding, endian |-> e, unique |-> flags.val[4]], flags.off)

nv_from_version(encoding, e, d, version) ==
    IF ~version.ok THEN version
    ELSE IF ~IsZero(version.val) THEN Err("InvalidVersion", version.off)
    ELSE nv_from_flags(encoding, e, xdr_get_u32(d, version.off))

nv_from_partial(encoding, e, d) ==
    IF encoding = NvNative THEN Err("Panic", 0)
    ELSE nv_from_version(encoding, e, d, xdr_get_u32(d, 0))

nv_from_bytes(d) ==
    IF Len(d) < 4 THEN Err("EndOfInput", 0)
    ELSE IF ~Encoding_from_u8(d[1]) THEN Err("InvalidEncoding", 0)
    ELSE IF d[2] \notin {0, 1} THEN Err("InvalidEndian", 0)
    ELSE IF d[3] # 0 \/ d[4] # 0 THEN Err("InvalidReservedBytes", 0)
    ELSE nv_from_partial(d[1], IF d[2] = 0 THEN "Big" ELSE "Little", SubSeq(d, 5, Len(d)))

-----------------------------------------------------------------------------
(* phys/vdev.rs: the match on the vdev type in VdevTree::from_decoder.     *)
(* "Disk" stands for the decoding of a disk vdev, which goes on from the   *)
(* other pairs of the list.                                                *)

VDEV_TYPE_DISK == "disk"

VDEV_TYPES_TODO == {"file", "mirror", "missing", "raidz", "replacing", "root"}

VdevTree_match(vdev_type) ==
    IF vdev_type = VDEV_TYPE_DISK THEN [ok |-> TRUE, err |-> "None", val |-> "Disk", off |-> 0]
    ELSE IF vdev_type \in VDEV_TYPES_TODO THEN Err("Panic", 0)
    ELSE Err("UnknownType", 0)

-----------------------------------------------------------------------------
(* phys/checksum_value.rs, phys/checksum_tail.rs                           *)

ChecksumValue_from_decoder(d, o, e) == get_u64s(d, o, e, 4)

ChecksumValue_to_encoder(v, enc, e) == put_u64s(enc, e, v)

ChecksumTail_LENGTH == 40

ChecksumTail_MAGIC == <<2, 16, 218, 122, 177, 12, 122, 17>>

\* the value after the magic: dec is the result of from_u64_magic
ChecksumTail_from_value(dec, v) ==
    IF ~v.ok THEN v ELSE Ok([endian |-> dec.val, value |-> v.val], v.off)

ChecksumTail_from_magic(bytes, dec) ==
    IF ~dec.ok THEN Err(dec.err, dec.off)
    ELSE ChecksumTail_from_value(dec, ChecksumValue_from_decoder(bytes, dec.off, dec.val))

ChecksumTail_from_bytes(bytes) ==
    ChecksumTail_from_magic(bytes, from_u64_magic(bytes, ChecksumTail_MAGIC))

\* ChecksumTail::to_bytes that writes the magic big endian in any endian
ChecksumTail_to_bytes_fixed(tail, bytes) ==
    ChecksumValue_to_encoder(tail.value, put_u64(Encoder(bytes), "Big", ChecksumTail_MAGIC),
                             tail.endian)

ChecksumTail_to_bytes(tail, bytes) ==
    ChecksumValue_to_encoder(tail.value,
                             put_u64(Encoder(bytes), tail.endian, ChecksumTail_MAGIC),
                             tail.endian)

-----------------------------------------------------------------------------
(* xdr.rs: the Decoder over the data d with its cursor at offset o.  A     *)
(* length (usize) is a number; one that does not fit in two bytes stands   *)
(* as USIZE_LARGE, which is more than any buffer here holds.               *)

USIZE_LARGE == 65536

\* the ? operator: r when it failed, F of it otherwise
Then(r, F(_)) == CHOOSE x \in { IF v.ok THEN F(v) ELSE v : v \in {r} } : TRUE

usize_try_from(w) == IF w[1] # 0 \/ w[2] # 0 THEN USIZE_LARGE ELSE 256 * w[3] + w[4]

\* i32::from_be_bytes: two's complement
i32_from_be_bytes(b) ==
    (IF b[1] >= 128 THEN b[1] - 256 ELSE b[1]) * 16777216 + 65536 * b[2] + 256 * b[3] + b[4]

xdr_padding(o) == IF o % 4 = 0 THEN 0 ELSE 4 - (o % 4)

\* consume_padding, then return v
xdr_consume_padding(d, o, v) ==
    IF ~check_need(d, o, xdr_padding(o)) THEN Err("EndOfInput", o)
    ELSE Ok(v, o + xdr_padding(o))

xdr_rewind(d, o, count) ==
    IF count > o THEN Err("RewindPastStart", o) ELSE xdr_consume_padding(d, o - count, 0)

xdr_get_8_bytes(d, o) ==
    IF ~check_need(d, o, 8) THEN Err("EndOfInput", o) ELSE Ok(Slice(d, o, 8), o + 8)

xdr_get_n_bytes(d, o, length) ==
    IF ~check_need(d, o, length) THEN Err("EndOfInput", o)
    ELSE xdr_consume_padding(d, o + length, Slice(d, o, length))

\* a narrow signed value out of the i32 read: lo..hi is the range of the type
xdr_narrow_signed(r, lo, hi, err, o) ==
    IF ~r.ok THEN r
    ELSE IF i32_from_be_bytes(r.val) < lo \/ i32_from_be_bytes(r.val) > hi THEN Err(err, r.off)
    ELSE Ok(i32_from_be_bytes(r.val), r.off)

\* a narrow unsigned value out of the u32 read: n is the bytes of the type
xdr_narrow_unsigned(r, n, err, o) ==
    IF ~r.ok THEN r
    ELSE IF ~IsZero(SubSeq(r.val, 1, 4 - n)) THEN Err(err, r.off)
    ELSE Ok(Num(SubSeq(r.val, 5 - n, 4)), r.off)

\* get_i8 that takes the low byte of the i32 (as i8), without the conversion
xdr_get_i8_truncating(d, o) ==
    IF ~check_need(d, o, 4) THEN Err("EndOfInput", o)
    ELSE Ok(((d[o + 4] + 128) % 256) - 128, o + 4)

xdr_get_i8(d, o) == xdr_narrow_signed(xdr_get_u32(d, o), -128, 127, "I8Conversion", o)

xdr_get_i16(d, o) == xdr_narrow_signed(xdr_get_u32(d, o), -32768, 32767, "I16Conversion", o)

xdr_get_u8(d, o) == xdr_narrow_unsigned(xdr_get_u32(d, o), 1, "U8Conversion", o)

xdr_get_u16(d, o) == xdr_narrow_unsigned(xdr_get_u32(d, o), 2, "U16Conversion", o)

xdr_get_bool(d, o) ==
    Then(xdr_get_u32(d, o), LAMBDA r :
        IF ~IsZero(SubSeq(r.val, 1, 3)) \/ r.val[4] > 1 THEN Err("InvalidBoolean", r.off)
        ELSE Ok(r.val[4] = 1, r.off))

xdr_get_usize(d, o) == Then(xdr_get_u32(d, o), LAMBDA r : Ok(usize_try_from(r.val), r.off))

\* get_bytes that leaves the padding in the input
xdr_get_bytes_unpadded(d, o) ==
    Then(xdr_get_usize(d, o), LAMBDA length : get_bytes(d, length.off, length.val))

xdr_get_bytes(d, o) ==
    Then(xdr_get_usize(d, o), LAMBDA length : xdr_get_n_bytes(d, length.off, length.val))

\* core::str::from_utf8 on the bytes s: well-formed UTF-8
RECURSIVE from_utf8(_)
from_utf8(s) ==
    IF Len(s) = 0 THEN TRUE
    ELSE IF s[1] < 128 THEN from_utf8(Tail(s))
    ELSE IF s[1] \in 194..223
         THEN Len(s) >= 2 /\ s[2] \in 128..191 /\ from_utf8(SubSeq(s, 3, Len(s)))
    ELSE IF s[1] \in 224..239
         THEN /\ Len(s) >= 3
              /\ s[2] \in (IF s[1] = 224 THEN 160..191 ELSE IF s[1] = 237 THEN 128..159
                           ELSE 128..191)
              /\ s[3] \in 128..191
              /\ from_utf8(SubSeq(s, 4, Len(s)))
    ELSE IF s[1] \in 240..244
         THEN /\ Len(s) >= 4
              /\ s[2] \in (IF s[1] = 240 THEN 144..191 ELSE IF s[1] = 244 THEN 128..143
                           ELSE 128..191)
              /\ s[3] \in 128..191
              /\ s[4] \in 128..191
              /\ from_utf8(SubSeq(s, 5, Len(s)))
    ELSE FALSE

xdr_get_str(d, o) ==
    Then(xdr_get_bytes(d, o), LAMBDA r :
        IF ~from_utf8(r.val) THEN Err("InvalidStr", r.off) ELSE r)

-----------------------------------------------------------------------------
(* nv.rs: Decoder::next_pair and ArrayDecoder::get.  nvd is the Decoder's  *)
(* encoding, endian and unique; d and o are the data and the cursor of its *)
(* xdr decoder.  A data type is its number, Boolean = 1 to Double = 27.    *)

DataType_from_u32(w) == IsZero(SubSeq(w, 1, 3)) /\ w[4] \in 1..27

NvList == 19

NvListArray == 20

check_data_type_count(data_type, count) ==
    IF data_type = 1 THEN count = 0
    ELSE IF data_type \in {2, 3, 4, 5, 6, 7, 8, 9, 18, NvList, 21, 22, 23, 27} THEN count = 1
    ELSE TRUE

\* an ArrayDecoder over the bytes read, with its index at 0
ArrayDecoder(nvd, bytes, count) ==
    Then(bytes, LAMBDA b : Ok([data |-> b.val, count |-> count, encoding |-> nvd.encoding,
                               endian |-> nvd.endian], b.off))

\* a nested Decoder over the bytes read: its cursor is after version and flags
NestedDecoder(encoding, e, bytes) ==
    Then(bytes, LAMBDA b :
        CHOOSE r \in { IF ~p.ok THEN Err(p.err, b.off)
                       ELSE Ok([data |-> b.val, offset |-> p.off, unique |-> p.val.unique], b.off) :
                       p \in {nv_from_partial(encoding, e, b.val)} } : TRUE)

\* the match on the data type that decodes the value
nv_value(nvd, d, o, data_type, element_count, bytes_rem) ==
    CASE data_type = 1 -> Ok(<<>>, o)
      [] data_type \in {2, 23} -> xdr_get_u8(d, o)
      [] data_type = 3 -> xdr_get_i16(d, o)
      [] data_type = 4 -> xdr_get_u16(d, o)
      [] data_type \in {5, 6} -> xdr_get_u32(d, o)
      [] data_type \in {7, 8, 18, 27} -> xdr_get_8_bytes(d, o)
      [] data_type = 9 -> xdr_get_str(d, o)
      [] data_type = 10 -> xdr_get_bytes(d, o)
      [] data_type \in {11, 12, 13, 14, 24, 25, 26} ->
             ArrayDecoder(nvd, xdr_get_n_bytes(d, o, element_count * 4), element_count)
      [] data_type \in {15, 16} ->
             ArrayDecoder(nvd, xdr_get_n_bytes(d, o, element_count * 8), element_count)
      [] data_type \in {17, NvListArray} ->
             ArrayDecoder(nvd, xdr_get_n_bytes(d, o, bytes_rem), element_count)
      [] data_type = NvList ->
             NestedDecoder(nvd.encoding, nvd.endian, xdr_get_n_bytes(d, o, bytes_rem))
      [] data_type = 21 -> xdr_get_bool(d, o)
      [] data_type = 22 -> xdr_get_i8(d, o)

\* nv_pair_value that accepts a pair whose payload ends before its encoded size
nv_pair_value_leftover(nvd, d, o, encoded_size, name) ==
    Then(xdr_get_u32(d, name.off), LAMBDA data_type :
    IF ~DataType_from_u32(data_type.val) THEN Err("InvalidDataType", data_type.off)
    ELSE Then(xdr_get_usize(d, data_type.off), LAMBDA element_count :
    IF encoded_size < element_count.off - o THEN Err("InvalidEncodedSize", element_count.off)
    ELSE IF ~check_data_type_count(data_type.val[4], element_count.val)
         THEN Err("InvalidCount", element_count.off)
    ELSE Then(nv_value(nvd, d, element_count.off, data_type.val[4], element_count.val,
                       encoded_size - (element_count.off - o)), LAMBDA v :
    IF encoded_size < v.off - o THEN Err("InvalidEncodedSize", v.off)
    ELSE Ok([some |-> TRUE, name |-> name.val, data_type |-> data_type.val[4],
             value |-> v.val], v.off))))

\* next_pair after the name: data type, count, value and the size check
nv_pair_value(nvd, d, o, encoded_size, name) ==
    Then(xdr_get_u32(d, name.off), LAMBDA data_type :
    IF ~DataType_from_u32(data_type.val) THEN Err("InvalidDataType", data_type.off)
    ELSE Then(xdr_get_usize(d, data_type.off), LAMBDA element_count :
    IF encoded_size < element_count.off - o THEN Err("InvalidEncodedSize", element_count.off)
    ELSE IF ~check_data_type_count(data_type.val[4], element_count.val)
         THEN Err("InvalidCount", element_count.off)
    ELSE Then(nv_value(nvd, d, element_count.off, data_type.val[4], element_count.val,
                       encoded_size - (element_count.off - o)), LAMBDA v :
    IF encoded_size # v.off - o THEN Err("InvalidEncodedSize", v.off)
    ELSE Ok([some |-> TRUE, name |-> name.val, data_type |-> data_type.val[4],
             value |-> v.val], v.off))))

\* next_pair that ends the list at an encoded size of zero alone
next_pair_encoded_zero(nvd, d, o) ==
    Then(xdr_get_usize(d, o), LAMBDA encoded_size :
    Then(xdr_get_usize(d, encoded_size.off), LAMBDA decoded_size :
    IF encoded_size.val = 0 THEN Ok([some |-> FALSE], decoded_size.off)
    ELSE Then(xdr_get_str(d, decoded_size.off), LAMBDA name :
         nv_pair_value(nvd, d, o, encoded_size.val, name))))

next_pair(nvd, d, o) ==
    Then(xdr_get_usize(d, o), LAMBDA encoded_size :
    Then(xdr_get_usize(d, encoded_size.off), LAMBDA decoded_size :
    IF encoded_size.val = 0 /\ decoded_size.val = 0 THEN Ok([some |-> FALSE], decoded_size.off)
    ELSE Then(xdr_get_str(d, decoded_size.off), LAMBDA name :
         nv_pair_value(nvd, d, o, encoded_size.val, name))))

\* the loop of ArrayDecoder::get: next_pair until the end of the list or an error
RECURSIVE nv_drain(_, _, _)
nv_drain(nvd, d, o) ==
    Then(next_pair(nvd, d, o), LAMBDA p : IF p.val.some THEN nv_drain(nvd, d, p.off) ELSE p)

\* ArrayDecoder<Decoder>::get: ad is the ArrayDecoder, o the cursor of its xdr
\* decoder; the offset of the result is that cursor afterwards
ArrayDecoder_get_rest(ad, o, starting_length) ==
    Then(xdr_get_n_bytes(ad.data, o, starting_length), LAMBDA rest :
    CHOOSE r \in {
        IF ~decoder.ok THEN Err(decoder.err, rest.off)
        ELSE IF ~nv_drain(ad, rest.val, decoder.val.offset).ok
             THEN Err(nv_drain(ad, rest.val, decoder.val.offset).err, rest.off)
        ELSE Then(xdr_rewind(ad.data, rest.off, starting_length), LAMBDA rewound :
             NestedDecoder(ad.encoding, ad.endian,
                           xdr_get_n_bytes(ad.data, rewound.off,
                                           starting_length - DecoderLen(ad.data, rest.off)))) :
        decoder \in {NestedDecoder(ad.encoding, ad.endian, rest)} } : TRUE)

ArrayDecoder_get(ad, o, index) ==
    IF index >= ad.count THEN Err("EndOfArray", o)
    ELSE ArrayDecoder_get_rest(ad, o, DecoderLen(ad.data, o))

-----------------------------------------------------------------------------
(* phys/pool.rs: PoolHost::from_decoder.  The macros nv::find_option! and  *)
(* nv::find! look a name up in the list from its start: the pair of that   *)
(* name, which must be of the data type asked for; find! fails when there  *)
(* is none.  A string is its bytes.                                        *)

POOL_CONFIG_HOST_ID == <<104, 111, 115, 116, 105, 100>>

POOL_CONFIG_HOST_NAME == <<104, 111, 115, 116, 110, 97, 109, 101>>

Uint64 == 8

String == 9

\* the first pair of the name from the cursor o on, or the end of the list
RECURSIVE nv_search(_, _, _, _)
nv_search(nvd, d, o, name) ==
    Then(next_pair(nvd, d, o), LAMBDA p :
        IF p.val.some /\ p.val.name # name THEN nv_search(nvd, d, p.off, name) ELSE p)

find_option(nvd, d, name, data_type) ==
    Then(nv_search(nvd, d, 8, name), LAMBDA p :
        IF ~p.val.some THEN Ok([some |-> FALSE], p.off)
        ELSE IF p.val.data_type # data_type THEN Err("ValueTypeMismatch", p.off)
        ELSE Ok([some |-> TRUE, value |-> p.val.value], p.off))

find(nvd, d, name, data_type) ==
    Then(find_option(nvd, d, name, data_type), LAMBDA v :
        IF ~v.val.some THEN Err("MissingValue", v.off) ELSE v)

\* PoolHost::from_decoder that lets a hostname be without a hostid
PoolHost_from_decoder_lenient(nvd, d) ==
    Then(find_option(nvd, d, POOL_CONFIG_HOST_ID, Uint64), LAMBDA host_id :
        IF host_id.val.some
        THEN Then(find(nvd, d, POOL_CONFIG_HOST_NAME, String), LAMBDA host_name :
                 Ok([some |-> TRUE, id |-> host_id.val.value, name |-> host_name.val.value],
                    host_name.off))
        ELSE Then(find_option(nvd, d, POOL_CONFIG_HOST_NAME, String), LAMBDA host_name :
                 Ok([some |-> FALSE], host_name.off)))

PoolHost_from_decoder(nvd, d) ==
    Then(find_option(nvd, d, POOL_CONFIG_HOST_ID, Uint64), LAMBDA host_id :
        IF host_id.val.some
        THEN Then(find(nvd, d, POOL_CONFIG_HOST_NAME, String), LAMBDA host_name :
                 Ok([some |-> TRUE, id |-> host_id.val.value, name |-> host_name.val.value],
                    host_name.off))
        ELSE Then(find_option(nvd, d, POOL_CONFIG_HOST_NAME, String), LAMBDA host_name :
                 IF host_name.val.some THEN Err("InvalidConfiguration", host_name.off)
                 ELSE Ok([some |-> FALSE], host_name.off)))

-----------------------------------------------------------------------------
(* phys/label.rs: the lengths of the parts of a label and Label::offsets.  *)

Blank_LENGTH == 8192

BootHeader_LENGTH == 8192

NvPairs_LENGTH == 114688

Label_UBER_COUNT == 128

Label_LENGTH ==
    Blank_LENGTH + BootHeader_LENGTH + NvPairs_LENGTH + Label_UBER_COUNT * UberBlock_LENGTH

\* Label::offsets that puts the first label at the start of the device
Label_offsets_from_zero(vdev_size) ==
    IF vdev_size < Label_LENGTH * 4 THEN Err("InvalidSize", 0)
    ELSE Ok(<<0, Label_LENGTH, vdev_size - 2 * Label_LENGTH, vdev_size - Label_LENGTH>>, 0)

Label_offsets(vdev_size) ==
    IF vdev_size < Label_LENGTH * 4 THEN Err("InvalidSize", 0)
    ELSE Ok(<<Label_LENGTH, 2 * Label_LENGTH, vdev_size - 2 * Label_LENGTH,
              vdev_size - Label_LENGTH>>, 0)

-----------------------------------------------------------------------------
(* phys/label.rs: LabelDecode::from_bytes.  An offset into the vdev is a   *)
(* number here and the u64 of its eight bytes where it is digested.  reg   *)
(* is the digest history, which each label_verify extends in turn.         *)

BootHeader_OFFSET == Blank_LENGTH

NvPairs_OFFSET == BootHeader_OFFSET + BootHeader_LENGTH

WithoutSha(r) == [f \in DOMAIN r \ {"sha"} |-> r[f]]

Blank_from_bytes(bytes) == Ok(SubSeq(bytes, 1, Blank_LENGTH - ChecksumTail_LENGTH), 0)

\* the result is [ok, err, cause, val, sha]
BootHeader_from_bytes(bytes, off, reg) ==
    CHOOSE r \in { IF ~v.ok
                   THEN [ok |-> FALSE, err |-> "LabelVerifyError", cause |-> v.err, sha |-> v.sha]
                   ELSE [ok |-> TRUE, err |-> "None", cause |-> "None", sha |-> v.sha,
                         val |-> SubSeq(bytes, 1, BootHeader_LENGTH - ChecksumTail_LENGTH)] :
                   v \in {label_verify(bytes, off, reg)} } : TRUE

NvPairs_from_bytes(bytes, off, reg) ==
    CHOOSE r \in { IF ~v.ok
                   THEN [ok |-> FALSE, err |-> "LabelVerifyError", cause |-> v.err, sha |-> v.sha]
                   ELSE [ok |-> TRUE, err |-> "None", cause |-> "None", sha |-> v.sha,
                         val |-> SubSeq(bytes, 1, NvPairs_LENGTH - ChecksumTail_LENGTH)] :
                   v \in {label_verify(bytes, off, reg)} } : TRUE

\* an uberblock offset that is the offset of the first slot for every slot
UberBlock_offset_first(uber_offset, i) == uber_offset

\* the offset into the vdev of the i-th uberblock
UberBlock_offset(uber_offset, i) == uber_offset + i * UberBlock_LENGTH

\* the elements lo..hi of the array uber_blocks of LabelDecode, in their
\* order: the result is [results, sha]
RECURSIVE UberBlocks_from_bytes(_, _, _, _, _)
UberBlocks_from_bytes(uber_blocks, uber_offset, lo, hi, reg) ==
    IF lo = hi
    THEN CHOOSE s \in { [results |-> <<WithoutSha(r)>>, sha |-> r.sha] :
             r \in {UberBlock_from_bytes(
                        SubSeq(uber_blocks, lo * UberBlock_LENGTH + 1, (lo + 1) * UberBlock_LENGTH),
                        Numeral(UberBlock_offset(uber_offset, lo), 8), reg)} } : TRUE
    ELSE CHOOSE s \in UNION {
             { [results |-> left.results \o right.results, sha |-> right.sha] :
               right \in {UberBlocks_from_bytes(uber_blocks, uber_offset,
                                                (lo + hi) \div 2 + 1, hi, left.sha)} } :
             left \in {UberBlocks_from_bytes(uber_blocks, uber_offset, lo, (lo + hi) \div 2,
                                             reg)} } : TRUE

\* the result is [blank, boot_header, nv_pairs, uber_blocks, sha]
LabelDecode_from_bytes(d, o, reg) ==
    CHOOSE r \in UNION { UNION {
        { [blank |-> Blank_from_bytes(SubSeq(d, 1, Blank_LENGTH)),
           boot_header |-> WithoutSha(boot_header),
           nv_pairs |-> WithoutSha(nv_pairs),
           uber_blocks |-> ubs.results,
           sha |-> ubs.sha] :
          ubs \in {UberBlocks_from_bytes(
                       SubSeq(d, Blank_LENGTH + BootHeader_LENGTH + NvPairs_LENGTH + 1, Len(d)),
                       o + Blank_LENGTH + BootHeader_LENGTH + NvPairs_LENGTH,
                       0, Label_UBER_COUNT - 1, nv_pairs.sha)} } :
        nv_pairs \in {NvPairs_from_bytes(Slice(d, NvPairs_OFFSET, NvPairs_LENGTH),
                                         Numeral(o + NvPairs_OFFSET, 8), boot_header.sha)} } :
        boot_header \in {BootHeader_from_bytes(Slice(d, BootHeader_OFFSET, BootHeader_LENGTH),
                                               Numeral(o + BootHeader_OFFSET, 8), reg)} } : TRUE

-----------------------------------------------------------------------------
(* phys/zil_header.rs and phys/object_set.rs                               *)

\* count words of 64 bits read in turn, each of which must be zero
zero_padding_words(d, o, count) ==
    LET bad == { k \in 0..(count - 1) :
                     ~check_need(d, o + 8 * k, 8) \/ ~IsZero(Slice(d, o + 8 * k, 8)) }
        first == CHOOSE k \in bad : \A other \in bad : k <= other
    IN  IF bad = {} THEN Ok(<<>>, o + 8 * count)
        ELSE IF ~check_need(d, o + 8 * first, 8) THEN Err("EndOfInput", o + 8 * first)
        ELSE Err("NonZeroPadding", o + 8 * first + 8)

ZilHeader_from_decoder(d, o, e) ==
    Then(get_u64(d, o, e), LAMBDA claim_txg :
    Then(get_u64(d, claim_txg.off, e), LAMBDA replay_seq :
    Then(BlockPointer_from_decoder(d, replay_seq.off, e), LAMBDA log :
    Then(get_u64(d, log.off, e), LAMBDA claim_blk_seq :
    Then(get_u64(d, claim_blk_seq.off, e), LAMBDA zil_flags :
    Then(get_u64(d, zil_flags.off, e), LAMBDA claim_lr_seq :
    Then(zero_padding_words(d, claim_lr_seq.off, 3), LAMBDA padding :
        Ok([claim_txg |-> claim_txg.val, replay_seq |-> replay_seq.val, log |-> log.val,
            claim_blk_seq |-> claim_blk_seq.val, flags |-> zil_flags.val,
            claim_lr_seq |-> claim_lr_seq.val], padding.off))))))))

\* FLAG_ALL of an object set, in the low byte of the flags
ObjectSet_FLAG_ALL == 7

\* the number of the last ObjectSetType, NumTypes
ObjectSetType_last == 6

ObjectSet_MAC_LEN == 32

\* an extension that ends after the two dnodes whatever follows them
ObjectSet_extension_two(d, o, e) ==
    IF ~(DecoderLen(d, o) > 0) THEN Ok([kind |-> "None"], o)
    ELSE Then(Dnode_from_decoder(d, o, e), LAMBDA user_used :
         Then(Dnode_from_decoder(d, user_used.off, e), LAMBDA group_used :
             Ok([kind |-> "Two", user_used |-> user_used.val, group_used |-> group_used.val],
                group_used.off)))

\* the extension of ObjectSet::from_decoder, chosen by what the decoder has left
ObjectSet_extension(d, o, e) ==
    IF ~(DecoderLen(d, o) > 0) THEN Ok([kind |-> "None"], o)
    ELSE Then(Dnode_from_decoder(d, o, e), LAMBDA user_used :
         Then(Dnode_from_decoder(d, user_used.off, e), LAMBDA group_used :
             IF DecoderLen(d, group_used.off) = 0
             THEN Ok([kind |-> "Two", user_used |-> user_used.val,
                      group_used |-> group_used.val], group_used.off)
             ELSE Then(Dnode_from_decoder(d, group_used.off, e), LAMBDA project_used :
                  Then(zero_padding_words(d, project_used.off, 192), LAMBDA padding :
                      Ok([kind |-> "Three", user_used |-> user_used.val,
                          group_used |-> group_used.val, project_used |-> project_used.val],
                         padding.off)))))

ObjectSet_from_decoder(d, o, e) ==
    Then(Dnode_from_decoder(d, o, e), LAMBDA os_meta_dnode :
    Then(ZilHeader_from_decoder(d, os_meta_dnode.off, e), LAMBDA zil_header :
    Then(get_u64(d, zil_header.off, e), LAMBDA os_type :
        IF ~(IsZero(SubSeq(os_type.val, 1, 7)) /\ os_type.val[8] <= ObjectSetType_last)
        THEN Err("InvalidObjectSetType", os_type.off)
        ELSE
    Then(get_u64(d, os_type.off, e), LAMBDA os_flags :
        IF ~(IsZero(SubSeq(os_flags.val, 1, 7)) /\ os_flags.val[8] <= ObjectSet_FLAG_ALL)
        THEN Err("InvalidFlags", os_flags.off)
        ELSE
    Then(get_bytes(d, os_flags.off, ObjectSet_MAC_LEN), LAMBDA portable_mac :
    Then(get_bytes(d, portable_mac.off, ObjectSet_MAC_LEN), LAMBDA local_mac :
    Then(zero_padding_words(d, local_mac.off, 30), LAMBDA padding :
    Then(ObjectSet_extension(d, padding.off, e), LAMBDA extension :
        Ok([os_meta_dnode |-> os_meta_dnode.val, zil_header |-> zil_header.val,
            os_type |-> os_type.val[8],
            user_accounting_complete |-> Bit(os_flags.val[8], 0) = 1,
            user_object_accounting_complete |-> Bit(os_flags.val[8], 1) = 1,
            project_quota_complete |-> Bit(os_flags.val[8], 2) = 1,
            portable_mac |-> portable_mac.val, local_mac |-> local_mac.val,
            extension |-> extension.val], extension.off)))))))))

-----------------------------------------------------------------------------
(* xdr.rs: the moves of the cursor.                                        *)

xdr_skip(d, o, length) ==
    IF ~check_need(d, o, length) THEN Err("EndOfInput", o)
    ELSE xdr_consume_padding(d, o + length, <<>>)

\* reset, then skip
xdr_seek(d, to) == xdr_skip(d, 0, to)

-----------------------------------------------------------------------------
(* endian.rs: Decoder::get_u32.                                            *)

get_u32(d, o, e) ==
    IF check_need(d, o, 4) THEN Ok(EndianDecode(e, Slice(d, o, 4)), o + 4)
    ELSE Err("EndOfInput", o)

-----------------------------------------------------------------------------
(* phys/block_pointer.rs: the first three statements of                    *)
(* BlockPointer::from_decoder, which read the flags word and put the       *)
(* cursor back, and the match that follows them.                           *)

\* BlockPointer_flags that leaves the cursor after the flags word
BlockPointer_flags_committed(d, o, e) ==
    LET r1 == skip(d, o, 3 * Dva_LENGTH)
        rf == get_u64(d, r1.off, e)
    IN  IF ~r1.ok THEN r1 ELSE rf

BlockPointer_flags(d, o, e) ==
    LET r1 == skip(d, o, 3 * Dva_LENGTH)
        rf == get_u64(d, r1.off, e)
        r3 == rewind(rf.off, 3 * Dva_LENGTH + 8)
    IN  IF ~r1.ok THEN r1
        ELSE IF ~rf.ok THEN rf
        ELSE IF ~r3.ok THEN r3
        ELSE Ok(rf.val, r3.off)

\* the variant that the match selects for a flags word
BlockPointer_select(r) ==
    IF ~r.ok THEN r
    ELSE IF FlagEmbedded(r.val) /\ FlagEncrypted(r.val) THEN Err("InvalidBlockPointerType", r.off)
    ELSE IF FlagEmbedded(r.val) THEN Ok("Embedded", r.off)
    ELSE IF FlagEncrypted(r.val) THEN Ok("Encrypted", r.off)
    ELSE Ok("Regular", r.off)

\* the arm of the match
BlockPointer_variant(d, r, e) ==
    IF ~r.ok THEN r
    ELSE IF r.val = "Embedded" THEN BlockPointerEmbedded_from_decoder(d, r.off, e)
    ELSE IF r.val = "Encrypted" THEN BlockPointerEncrypted_from_decoder(d, r.off, e)
    ELSE BlockPointerRegular_from_decoder(d, r.off, e)

-----------------------------------------------------------------------------
(* nv.rs: Decoder::reset.  The cursor of the xdr decoder after it: reset   *)
(* puts it at 0 and the result of the skip of version and flags is         *)
(* ignored.                                                                *)

nv_reset(d) == xdr_skip(d, 0, 8).off

-----------------------------------------------------------------------------
(* nv.rs: ArrayDecoder.  ad is the ArrayDecoder record that next_pair      *)
(* returned, o the cursor of its xdr decoder and index its index.          *)

ArrayDecoder_capacity(ad) == ad.count

ArrayDecoder_len(ad, index) == IF ad.count >= index THEN ad.count - index ELSE 0

\* the index after a get
ArrayDecoder_index(ad, index) == IF index < ad.count THEN index + 1 ELSE index

\* get of an ArrayDecoder<&str>
ArrayDecoder_get_str(ad, o, index) ==
    IF index < ad.count THEN xdr_get_str(ad.data, o) ELSE Err("EndOfArray", o)

\* get of an ArrayDecoder<u32>
ArrayDecoder_get_u32(ad, o, index) ==
    IF index < ad.count THEN xdr_get_u32(ad.data, o) ELSE Err("EndOfArray", o)

\* get of an ArrayDecoder<u64>
ArrayDecoder_get_u64(ad, o, index) ==
    IF index < ad.count THEN xdr_get_8_bytes(ad.data, o) ELSE Err("EndOfArray", o)

-----------------------------------------------------------------------------
(* The caller.  It holds an input buffer, decodes it with a cursor of some *)
(* endian, and encodes the decoded value into an output buffer of the same *)
(* length with an encoder of the same endian.  The output buffer starts    *)
(* filled with a non-zero byte, as a caller's buffer may.                   *)

FillByte == 170

\* the words ws laid out one after the other, each in byte order l
RECURSIVE Lay(_, _)
Lay(l, ws) == IF Len(ws) = 0 THEN <<>> ELSE EndianEncode(l, Head(ws)) \o Lay(l, Tail(ws))

Truncations(b, lens) == {SubSeq(b, 1, n) : n \in lens}

EncResult(enc) == [ok |-> enc.ok, err |-> enc.err, off |-> enc.off]

InitCaller(start) ==
    /\ endian \in Endians
    /\ offset = 0
    /\ value = NoResult
    /\ out = Fill(Len(data), FillByte)
    /\ result = NoResult
    /\ salt = Zeros(8)
    /\ sha = <<>>
    /\ changed = 0
    /\ arg = 0
    /\ pc = start

Decoded(r, next) ==
    /\ value' = r
    /\ offset' = r.off
    /\ pc' = next
    /\ UNCHANGED <<data, endian, out, result, salt, sha, changed, arg>>

Encoded(enc, next) ==
    /\ out' = enc.data
    /\ result' = EncResult(enc)
    /\ pc' = next
    /\ UNCHANGED <<data, endian, offset, value, salt, sha, changed, arg>>

-----------------------------------------------------------------------------
(* DVA: decode, then encode.                                               *)

DvaWordsA == { Zeros(8), <<0, 18, 52, 86, 7, 0, 0, 8>>, <<1, 0, 0, 0, 0, 0, 0, 0>>,
               <<0, 255, 255, 255, 255, 255, 255, 255>>, <<0, 0, 0, 0, 0, 0, 0, 1>> }

DvaWordsB == { Zeros(8), <<128, 0, 0, 0, 0, 0, 0, 16>>, <<0, 0, 0, 0, 0, 0, 0, 16>>,
               <<255, 255, 255, 255, 255, 255, 255, 255>>, <<128, 0, 0, 0, 0, 0, 0, 0>> }

DvaExample == <<0, 18, 52, 86, 7, 0, 0, 8, 128, 0, 0, 0, 0, 0, 0, 16>>

DvaInputs ==
    LET full == {Lay(l, <<a, b>>) : l \in Endians, a \in DvaWordsA, b \in DvaWordsB}
    IN  full \cup Truncations(DvaExample, {0, 7, 8, 15})

InitDva == data \in DvaInputs /\ InitCaller("Dva")

DvaDecode ==
    /\ pc = "Dva"
    /\ Decoded(Dva_from_decoder(data, offset, endian), "DvaDecoded")

DvaEncode ==
    /\ pc = "DvaDecoded"
    /\ value.ok
    /\ Encoded(Dva_to_encoder(value.val, Encoder(out), endian), "DvaEncoded")

NextDva == DvaDecode \/ DvaEncode

SpecDva == InitDva /\ [][NextDva]_vars

-----------------------------------------------------------------------------
(* Block pointer: decode, then encode.  The inputs are 16 words laid out   *)
(* in either byte order, and truncations of one of them.                   *)

BPLead == { <<Zeros(8), Zeros(8), Zeros(8)>>,
            <<<<0, 18, 52, 86, 7, 0, 0, 8>>, <<128, 0, 0, 0, 0, 0, 0, 16>>, Zeros(8)>>,
            <<<<1, 0, 0, 0, 0, 0, 0, 0>>, Zeros(8), Zeros(8)>>,
            <<Zeros(8), Zeros(8), <<0, 0, 0, 0, 0, 0, 0, 1>>>> }

\* bits 56..63: level, encrypted, dedup, little endian
BPTop == {0, 31, 37, 64, 129, 96}

\* bits 32..39: compression, embedded
BPComp == {0, 16, 17, 35, 64, 128, 144, 161, 145}

\* DMU type, checksum or embedded type, sizes
BPMid == { <<0, 0, 0, 0, 0, 0>>, <<53, 14, 1, 2, 3, 4>>, <<54, 0, 0, 0, 0, 0>>,
           <<10, 15, 0, 0, 0, 0>>, <<10, 2, 225, 0, 0, 5>>, <<10, 3, 0, 0, 0, 0>>,
           <<10, 1, 226, 0, 0, 0>> }

BPWords(lead, top, comp, mid) ==
    << lead[1], lead[2], Zeros(8), Zeros(8),
       <<0, 0, 0, 1, 2, 0, 0, 3>>, <<128, 0, 0, 0, 0, 0, 0, 32>>,
       <<top, mid[1], mid[2], comp, mid[3], mid[4], mid[5], mid[6]>>,
       Zeros(8), lead[3],
       <<0, 0, 0, 0, 0, 0, 1, 2>>, <<0, 0, 0, 0, 0, 0, 3, 4>>, <<9, 8, 7, 6, 5, 4, 3, 2>>,
       <<17, 0, 0, 0, 0, 0, 0, 1>>, <<18, 0, 0, 0, 0, 0, 0, 2>>,
       <<19, 0, 0, 0, 0, 0, 0, 3>>, <<20, 0, 0, 0, 0, 0, 0, 4>> >>

BPTruncLens == {0, 47, 48, 55, 56, 127}

BPInputs ==
    LET full == {Lay(l, BPWords(lead, top, comp, mid)) :
                    l \in Endians, lead \in BPLead, top \in BPTop, comp \in BPComp, mid \in BPMid}
    IN  full \cup Truncations(Lay("Big", BPWords(<<Zeros(8), Zeros(8), Zeros(8)>>, 0, 0,
                                                  <<0, 0, 0, 0, 0, 0>>)), BPTruncLens)

InitBP == data \in BPInputs /\ InitCaller("BP")

BPDecode ==
    /\ pc = "BP"
    /\ Decoded(BlockPointer_from_decoder(data, offset, endian), "BPDecoded")

BPEncode ==
    /\ pc = "BPDecoded"
    /\ value.ok
    /\ Encoded(BlockPointer_to_encoder(value.val, Encoder(out), endian), "BPEncoded")

NextBP == BPDecode \/ BPEncode

SpecBP == InitBP /\ [][NextBP]_vars

-----------------------------------------------------------------------------
(* Dnode: decode, then encode.  The inputs are 512 bytes laid out in the   *)
(* byte order of the decoder: a head, the sizes, and a tail of block       *)
(* pointers and bonus bytes in one of two layouts, and a few malformed     *)
(* or truncated ones.                                                      *)

DnCounts == 0..4

DnFlags == {0, 4, 11, 15, 16, 20}

DnBonusLens == { <<0, 0>>, <<0, 64>>, <<0, 193>>, <<1, 192>>, <<1, 193>> }

DnPtrs == { BPWords(<<Zeros(8), Zeros(8), Zeros(8)>>, 0, 0, <<0, 0, 0, 0, 0, 0>>),
            BPWords(<<<<0, 18, 52, 86, 7, 0, 0, 8>>, <<128, 0, 0, 0, 0, 0, 0, 16>>, Zeros(8)>>,
                    129, 3, <<53, 14, 1, 2, 3, 4>>),
            BPWords(<<<<0, 18, 52, 86, 7, 0, 0, 8>>, <<128, 0, 0, 0, 0, 0, 0, 16>>, Zeros(8)>>,
                    1, 67, <<53, 14, 1, 2, 3, 4>>),
            BPWords(<<Zeros(8), Zeros(8), Zeros(8)>>, 37, 128, <<10, 2, 225, 0, 0, 5>>) }

\* three block pointers and 64 bonus bytes, or a block pointer, 192 bonus
\* bytes and a spill block pointer
DnTails(l) ==
    UNION { { Lay(l, p) \o Lay(l, p) \o Lay(l, p) \o Fill(64, 5),
              Lay(l, p) \o Fill(192, 5) \o Lay(l, p) } : p \in DnPtrs }

DnBytes(l, dmu, n, flags, bonus_len, pad, tail) ==
    <<dmu, 14, 2, n, 44, 7, 15, flags>> \o EndianEncode(l, <<2, 0>>) \o EndianEncode(l, bonus_len)
    \o <<1, 0, 0, pad>> \o Lay(l, << <<0, 0, 0, 0, 0, 0, 1, 0>>, <<0, 0, 0, 0, 0, 1, 2, 3>> >>)
    \o Zeros(31) \o <<pad>> \o tail

DnTruncLens == {0, 1, 4, 7, 9, 13, 63, 64, 191, 511}

DnodeInputs(l) ==
    { DnBytes(l, 19, n, flags, bonus_len, 0, tail) :
        n \in DnCounts, flags \in DnFlags, bonus_len \in DnBonusLens, tail \in DnTails(l) }
    \cup { DnBytes(l, dmu, 1, 0, <<0, 0>>, pad, Zeros(448)) : dmu \in {19, 54}, pad \in {0, 1} }
    \cup { DnBytes(l, 54, n, 4, <<0, 0>>, 0, Zeros(448)) : n \in DnCounts }
    \cup Truncations(DnBytes(l, 19, 1, 0, <<0, 0>>, 0, Zeros(448)), DnTruncLens)

InitDnode == \E l \in Endians : data \in DnodeInputs(l) /\ InitCaller("Dnode") /\ endian = l

DnodeDecode ==
    /\ pc = "Dnode"
    /\ Decoded(Dnode_from_decoder(data, offset, endian), "DnodeDecoded")

DnodeEncode ==
    /\ pc = "DnodeDecoded"
    /\ value.ok
    /\ Encoded(Dnode_to_encoder(value.val, Encoder(out), endian), "DnodeEncoded")

NextDnode == DnodeDecode \/ DnodeEncode

SpecDnode == InitDnode /\ [][NextDnode]_vars

-----------------------------------------------------------------------------
(* Labels and uberblocks.  A caller of the label checksum holds a buffer   *)
(* of any contents, checksums it at an offset in an endian, may then       *)
(* overwrite one byte, and verifies at any offset.  A caller of the        *)
(* uberblock codec holds 1024 bytes that a writer laid out in one byte     *)
(* order and checksummed at an offset in either byte order (or 1024 zero   *)
(* bytes, an unused slot), decodes them at an offset, and encodes the      *)
(* decoded value at the same offset into another buffer; for this caller   *)
(* endian is the byte order of the checksum the writer left.               *)

MaxPayload == 2

PayloadBytes == {0, 7}

Salts == { Zeros(8), <<0, 0, 0, 0, 0, 2, 0, 0>>, <<0, 0, 0, 0, 0, 0, 0, 1>> }

Payloads == UNION { [1..n -> PayloadBytes] : n \in 0..MaxPayload }

LabelTails == { Zeros(LABEL_LENGTH), Fill(LABEL_LENGTH, 255),
                LABEL_MAGIC \o Zeros(32), Reverse(LABEL_MAGIC) \o Fill(32, 1) }

LabelInputs == {p \o t : p \in Payloads, t \in LabelTails} \cup {Zeros(LABEL_LENGTH - 1)}

\* how a caller changes a byte to a different value
TamperDeltas == {1, 128, 255}

UBPtrs == { BPWords(<<Zeros(8), Zeros(8), Zeros(8)>>, 0, 0, <<0, 0, 0, 0, 0, 0>>) }
          \cup { BPWords(<<<<0, 18, 52, 86, 7, 0, 0, 8>>, <<128, 0, 0, 0, 0, 0, 0, 16>>, Zeros(8)>>,
                         top, comp, <<53, 14, 1, 2, 3, 4>>) :
                   top \in {129}, comp \in {3, 35} }
          \cup { BPWords(<<Zeros(8), Zeros(8), Zeros(8)>>, 37, 128, <<10, 2, 225, 0, 0, 5>>) }

UBMmps == { <<Zeros(8), Zeros(8), Zeros(8)>>,
            <<MMP_MAGIC, <<0, 0, 0, 0, 0, 0, 0, 5>>, <<0, 0, 0, 0, 0, 0, 1, 0>>>>,
            <<Zeros(8), <<0, 0, 0, 0, 0, 0, 0, 5>>, Zeros(8)>>,
            <<UberBlock_MAGIC, Zeros(8), Zeros(8)>> }

UBPads == {0, 9}

UBWords(ptr, mmp) ==
    << UberBlock_MAGIC, <<0, 0, 0, 0, 0, 0, 19, 136>>, <<0, 0, 0, 0, 0, 0, 0, 42>>,
       <<1, 2, 3, 4, 5, 6, 7, 8>>, <<0, 0, 0, 0, 101, 0, 0, 0>> >>
    \o ptr \o << <<0, 0, 0, 0, 0, 0, 19, 136>> >> \o mmp \o << <<0, 0, 0, 0, 0, 0, 0, 41>> >>

\* what a writer leaves in a slot: the fields in byte order l, padding
\* whose last byte is pad, and a label checksum at offset ws in byte order te
UBWritten(l, te, ws, ptr, mmp, pad) ==
    LET c == label_checksum(Lay(l, UBWords(ptr, mmp)) \o Zeros(PADDING_SIZE - 1) \o <<pad>>
                            \o Zeros(LABEL_LENGTH), ws, te, <<>>)
    IN  [data |-> c.data, sha |-> c.sha, endian |-> te]

UBSalts == { Zeros(8), <<0, 0, 0, 0, 0, 2, 0, 0>> }

UBInputs ==
    { UBWritten(l, te, ws, ptr, mmp, pad) :
        l \in Endians, te \in Endians, ws \in UBSalts, ptr \in UBPtrs, mmp \in UBMmps,
        pad \in UBPads }
    \cup { [data |-> Zeros(UberBlock_LENGTH), sha |-> <<>>, endian |-> te] : te \in Endians }

InitLabel ==
    /\ \/ /\ data \in LabelInputs
          /\ endian \in Endians
          /\ salt \in Salts
          /\ sha = <<>>
          /\ pc = "Label"
       \/ /\ \E w \in UBInputs : data = w.data /\ sha = w.sha /\ endian = w.endian
          /\ salt \in UBSalts
          /\ pc = "UB"
    /\ offset = 0
    /\ value = NoResult
    /\ out = Fill(Len(data), FillByte)
    /\ result = NoResult
    /\ changed = 0
    /\ arg = 0

LabelChecksum ==
    /\ pc = "Label"
    /\ LET c == label_checksum(data, salt, endian, sha)
       IN  /\ data' = c.data
           /\ sha' = c.sha
           /\ result' = [ok |-> c.ok, err |-> c.err, off |-> 0]
    /\ pc' = "Summed"
    /\ UNCHANGED <<endian, offset, value, out, salt, changed, arg>>

Tamper ==
    /\ pc = "Summed"
    /\ result.ok
    /\ \E i \in 1..Len(data), d \in TamperDeltas :
          /\ data' = [data EXCEPT ![i] = (@ + d) % 256]
          /\ changed' = i
    /\ pc' = "Tampered"
    /\ UNCHANGED <<endian, offset, value, out, result, salt, sha, arg>>

\* value.salt is the offset the caller verified at
LabelVerify ==
    /\ pc \in {"Label", "Summed", "Tampered"}
    /\ \E off \in Salts :
          LET v == label_verify(data, off, sha)
          IN  /\ value' = [ok |-> v.ok, err |-> v.err, off |-> 0, salt |-> off]
              /\ sha' = v.sha
    /\ pc' = IF pc = "Label" THEN "LabelVerified"
             ELSE IF pc = "Summed" THEN "SummedVerified" ELSE "TamperedVerified"
    /\ UNCHANGED <<data, endian, offset, out, result, salt, changed, arg>>

UBDecode ==
    /\ pc = "UB"
    /\ LET r == UberBlock_from_bytes(data, salt, sha)
       IN  /\ value' = r
           /\ offset' = r.off
           /\ sha' = r.sha
    /\ pc' = "UBDecoded"
    /\ UNCHANGED <<data, endian, out, result, salt, changed, arg>>

UBEncode ==
    /\ pc = "UBDecoded"
    /\ value.ok
    /\ LET w == UberBlock_to_bytes(value.val, out, salt, sha)
       IN  /\ out' = w.data
           /\ result' = [ok |-> w.ok, err |-> w.err, off |-> w.off]
           /\ sha' = w.sha
    /\ pc' = "UBEncoded"
    /\ UNCHANGED <<data, endian, offset, value, salt, changed, arg>>

NextLabel == LabelChecksum \/ Tamper \/ LabelVerify \/ UBDecode \/ UBEncode

SpecLabel == InitLabel /\ [][NextLabel]_vars

-----------------------------------------------------------------------------
(* Entry points on any input: the block checksum with any ChecksumType,    *)
(* the NV list header, the vdev type of a vdev tree.                       *)

BlockDatas == { <<>>, <<1, 2, 3, 4>>, <<1, 2, 3, 4, 5, 6, 7>>,
                <<255, 255, 255, 255, 255, 255, 255, 255, 0, 0, 0, 0, 0, 0, 0, 1>>,
                <<255, 255, 255, 255, 255, 255, 255, 255, 0, 0, 0, 0, 0, 0, 0, 1,
                  0, 0, 0, 0, 0, 0, 0, 1, 128, 0, 0, 0, 0, 0, 0, 0>> }

NvWords == { <<0, 0, 0, 0>>, <<0, 0, 0, 1>>, <<0, 0, 0, 2>>, <<0, 0, 0, 3>>, <<0, 0, 0, 4>>,
             <<1, 0, 0, 0>> }

NvInputs ==
    { <<encoding, e, r, 0>> \o version \o flags :
        encoding \in 0..2, e \in 0..2, r \in 0..1, version \in NvWords, flags \in NvWords }
    \cup { <<>>, <<1, 0, 0>>, <<1, 0, 0, 1>>, <<0, 1, 0, 0>>, <<1, 1, 0, 0>>,
           <<1, 0, 0, 0, 0, 0, 0>>, <<1, 0, 0, 0, 0, 0, 0, 0, 0, 0>> }

VdevTypes == {VDEV_TYPE_DISK, "indirect", ""} \cup VDEV_TYPES_TODO

InitEntry ==
    /\ \/ /\ data \in BlockDatas
          /\ arg \in 0..ChecksumType_MAX
          /\ endian \in Endians
          /\ pc = "Block"
       \/ /\ data \in NvInputs
          /\ arg = 0
          /\ endian = "Big"
          /\ pc = "Nv"
       \/ /\ data = <<>>
          /\ arg \in VdevTypes
          /\ endian = "Big"
          /\ pc = "Vdev"
    /\ offset = 0
    /\ value = NoResult
    /\ out = <<>>
    /\ result = NoResult
    /\ salt = Zeros(8)
    /\ sha = <<>>
    /\ changed = 0

\* value is the checksum the caller keeps
BlockChecksum ==
    /\ pc = "Block"
    /\ LET c == block_checksum(data, endian, arg, sha)
       IN  /\ value' = IF c.ok THEN Ok(c.val, 0) ELSE Err(c.err, 0)
           /\ sha' = c.sha
    /\ pc' = "BlockSummed"
    /\ UNCHANGED <<data, endian, offset, out, result, salt, changed, arg>>

\* the caller verifies the block against the checksum it keeps, or, with
\* none, against a checksum of zeroes
BlockVerify ==
    /\ \/ pc = "Block"
       \/ pc = "BlockSummed" /\ value.ok
    /\ LET v == block_verify(data, endian, arg,
                             IF value.ok THEN value.val
                             ELSE <<Zeros(8), Zeros(8), Zeros(8), Zeros(8)>>, sha)
       IN  /\ result' = [ok |-> v.ok, err |-> v.err, off |-> 0]
           /\ sha' = v.sha
    /\ pc' = "BlockVerified"
    /\ UNCHANGED <<data, endian, offset, value, out, salt, changed, arg>>

NvDecode ==
    /\ pc = "Nv"
    /\ value' = nv_from_bytes(data)
    /\ pc' = "NvDecoded"
    /\ UNCHANGED <<data, endian, offset, out, result, salt, sha, changed, arg>>

VdevDecode ==
    /\ pc = "Vdev"
    /\ value' = VdevTree_match(arg)
    /\ pc' = "VdevDecoded"
    /\ UNCHANGED <<data, endian, offset, out, result, salt, sha, changed, arg>>

NextEntry == BlockChecksum \/ BlockVerify \/ NvDecode \/ VdevDecode

SpecEntry == InitEntry /\ [][NextEntry]_vars

-----------------------------------------------------------------------------
(* A checksum tail is written with to_bytes into a buffer of 40 bytes and  *)
(* read back with from_bytes.                                              *)

TailWords == { Zeros(8), <<1, 2, 3, 4, 5, 6, 7, 8>>, <<17, 122, 12, 177, 122, 218, 16, 2>>,
               <<255, 255, 255, 255, 255, 255, 255, 255>> }

InitTail ==
    /\ data = <<>>
    /\ endian \in Endians
    /\ arg \in [endian : {endian}, value : [1..4 -> TailWords]]
    /\ offset = 0
    /\ value = NoResult
    /\ out = Fill(ChecksumTail_LENGTH, FillByte)
    /\ result = NoResult
    /\ salt = Zeros(8)
    /\ sha = <<>>
    /\ changed = 0
    /\ pc = "Tail"

TailEncode ==
    /\ pc = "Tail"
    /\ Encoded(ChecksumTail_to_bytes(arg, out), "TailEncoded")

TailDecode ==
    /\ pc = "TailEncoded"
    /\ Decoded(ChecksumTail_from_bytes(out), "TailDecoded")

NextTail == TailEncode \/ TailDecode

SpecTail == InitTail /\ [][NextTail]_vars

-----------------------------------------------------------------------------
(* An NV list: Decoder::from_bytes, then next_pair until the end of the    *)
(* list or an error.  arg is the Decoder, offset the cursor of its xdr     *)
(* decoder, changed the number of pairs returned.                          *)

XdrU32(n) == Numeral(n, 4)

\* a length, the bytes, and zeros up to a multiple of four
XdrOpaque(x) == XdrU32(Len(x)) \o x \o Zeros(xdr_padding(Len(x)))

RECURSIVE Concat(_)
Concat(ss) == IF Len(ss) = 0 THEN <<>> ELSE Head(ss) \o Concat(Tail(ss))

\* a pair whose encoded size is the bytes it takes plus extra
NvPair(name, data_type, count, v, extra) ==
    XdrU32(16 + Len(XdrOpaque(name)) + Len(v) + extra) \o XdrU32(32)
        \o XdrOpaque(name) \o XdrU32(data_type) \o XdrU32(count) \o v

NvListBody(pairs) == XdrU32(0) \o XdrU32(1) \o Concat(pairs) \o Zeros(8)

NvNames == {<<97>>, <<104, 111, 115, 116, 105, 100>>}

NvPairs ==
    { NvPair(name, 1, 0, <<>>, 0) : name \in NvNames }
    \cup { NvPair(<<97>>, 23, 1, XdrU32(v), 0) : v \in {7, 256} }
    \cup { NvPair(<<97, 98>>, 9, 1, XdrOpaque(s), 0) : s \in {<<104, 105>>, <<104, 255>>} }
    \cup { NvPair(<<97, 98, 99>>, 8, 1, <<0, 0, 0, 0, 0, 0, 1, 2>>, extra) : extra \in {0, 4} }
    \cup { NvPair(<<97>>, data_type, 2, XdrU32(1) \o XdrU32(2), 0) : data_type \in {1, 13, 28} }
    \cup { NvPair(<<97>>, NvList, 1, NvListBody(pairs), 0) :
           pairs \in {<<>>, <<NvPair(<<98>>, 1, 0, <<>>, 0)>>} }
    \cup { NvPair(<<97>>, NvListArray, 2, NvListBody(<<>>) \o NvListBody(<<>>), 0) }

NvEnds == { Zeros(8), <<0, 0, 0, 0, 0, 0, 0, 32>>, Zeros(4), <<>> }

NvInputLists ==
    { <<1, e, 0, 0>> \o XdrU32(0) \o XdrU32(1) \o Concat(pairs) \o end :
      e \in {0, 1}, pairs \in {<<>>} \cup { <<p>> : p \in NvPairs }
                              \cup { <<p, q>> : p \in NvPairs, q \in NvPairs },
      end \in NvEnds }

InitNv ==
    /\ data \in NvInputLists
    /\ endian = "Big"
    /\ offset = 0
    /\ value = NoResult
    /\ out = <<>>
    /\ result = NoResult
    /\ salt = Zeros(8)
    /\ sha = <<>>
    /\ changed = 0
    /\ arg = 0
    /\ pc = "Nv"

NvFromBytes ==
    /\ pc = "Nv"
    /\ \E r \in {nv_from_bytes(data)} :
           /\ value' = r
           /\ offset' = r.off
           /\ arg' = IF r.ok THEN r.val ELSE arg
           /\ pc' = IF r.ok THEN "NvList" ELSE "NvError"
    /\ UNCHANGED <<data, endian, out, result, salt, sha, changed>>

NvNextPair ==
    /\ pc = "NvList"
    /\ \E r \in {next_pair(arg, SubSeq(data, 5, Len(data)), offset)} :
           /\ value' = r
           /\ offset' = r.off
           /\ changed' = IF r.ok /\ r.val.some THEN changed + 1 ELSE changed
           /\ pc' = IF ~r.ok THEN "NvError" ELSE IF r.val.some THEN "NvList" ELSE "NvEnd"
    /\ UNCHANGED <<data, endian, out, result, salt, sha, arg>>

NextNv == NvFromBytes \/ NvNextPair

SpecNv == InitNv /\ [][NextNv]_vars

-----------------------------------------------------------------------------
(* A pool configuration: an NV list that may hold a hostid and a hostname, *)
(* of the right type or not, among other pairs.  arg is what the list was  *)
(* made of; an absent pair is the empty sequence.                          *)

PoolIds == { <<0, 0, 0, 0, 0, 0, 0, 0>>, <<0, 0, 0, 0, 222, 173, 190, 239>>,
             <<255, 0, 0, 0, 0, 0, 0, 1>> }

PoolNames == { <<>>, <<122>>, <<104, 111, 115, 116, 105, 100>> }

PoolArgs ==
    [ hostid : {<<>>} \cup { <<[data_type |-> Uint64, value |-> id]>> : id \in PoolIds }
                      \cup { <<[data_type |-> 7, value |-> Zeros(8)]>> },
      hostname : {<<>>} \cup { <<[data_type |-> String, value |-> n]>> : n \in PoolNames }
                        \cup { <<[data_type |-> Uint64, value |-> Zeros(8)]>> },
      first : {POOL_CONFIG_HOST_ID, POOL_CONFIG_HOST_NAME},
      lead : BOOLEAN ]

\* the pair of a name, or nothing
PoolPair(name, p) ==
    IF Len(p) = 0 THEN <<>>
    ELSE NvPair(name, p[1].data_type, 1,
                IF p[1].data_type = String THEN XdrOpaque(p[1].value) ELSE p[1].value, 0)

PoolBytes(a) ==
    <<1, 1, 0, 0>> \o XdrU32(0) \o XdrU32(1)
        \o (IF a.lead THEN NvPair(<<116, 120, 103>>, Uint64, 1, <<0, 0, 0, 0, 0, 0, 0, 9>>, 0)
            ELSE <<>>)
        \o (IF a.first = POOL_CONFIG_HOST_ID
            THEN PoolPair(POOL_CONFIG_HOST_ID, a.hostid)
                     \o PoolPair(POOL_CONFIG_HOST_NAME, a.hostname)
            ELSE PoolPair(POOL_CONFIG_HOST_NAME, a.hostname)
                     \o PoolPair(POOL_CONFIG_HOST_ID, a.hostid))
        \o Zeros(8)

InitPool ==
    /\ arg \in PoolArgs
    /\ data = PoolBytes(arg)
    /\ endian = "Little"
    /\ offset = 0
    /\ value = NoResult
    /\ out = <<>>
    /\ result = NoResult
    /\ salt = Zeros(8)
    /\ sha = <<>>
    /\ changed = 0
    /\ pc = "Pool"

PoolFromBytes ==
    /\ pc = "Pool"
    /\ Decoded(nv_from_bytes(data), "PoolList")

PoolHostDecode ==
    /\ pc = "PoolList"
    /\ value.ok
    /\ result' = PoolHost_from_decoder(value.val, SubSeq(data, 5, Len(data)))
    /\ pc' = "PoolDecoded"
    /\ UNCHANGED <<data, endian, offset, value, out, salt, sha, changed, arg>>

NextPool == PoolFromBytes \/ PoolHostDecode

SpecPool == InitPool /\ [][NextPool]_vars

-----------------------------------------------------------------------------
(* Label::offsets of a vdev size: sizes around each multiple of 64 KiB up  *)
(* to MaxVdevChunks of them, and the largest number the checker holds.     *)

MaxVdevChunks == 40

VdevSizes ==
    { 65536 * k + j : k \in 0..MaxVdevChunks, j \in {0, 1, 65535} } \cup {2147483647}

InitOffsets ==
    /\ arg \in VdevSizes
    /\ data = <<>>
    /\ endian = "Little"
    /\ offset = 0
    /\ value = NoResult
    /\ out = <<>>
    /\ result = NoResult
    /\ salt = Zeros(8)
    /\ sha = <<>>
    /\ changed = 0
    /\ pc = "Offsets"

LabelOffsets ==
    /\ pc = "Offsets"
    /\ value' = Label_offsets(arg)
    /\ pc' = "OffsetsDone"
    /\ UNCHANGED <<data, endian, offset, out, result, salt, sha, changed, arg>>

NextOffsets == LabelOffsets

SpecOffsets == InitOffsets /\ [][NextOffsets]_vars

-----------------------------------------------------------------------------
(* The xdr Decoder: get_bytes of an opaque value, and the narrow getters   *)
(* of a 32-bit word.  arg is the call and what the input was made of: the  *)
(* bytes x after `before` words and followed by `after` words, or the      *)
(* signed number v of the word.                                            *)

MaxOpaque == 5

RECURSIVE OpaqueBytes(_)
OpaqueBytes(n) ==
    IF n = 0 THEN {<<>>} ELSE { Append(x, b) : x \in OpaqueBytes(n - 1), b \in {0, 255} }

\* i32::to_be_bytes: two's complement
I32Bytes(v) == <<(v \div 16777216) % 256>> \o Numeral(v % 16777216, 3)

NarrowValues ==
    { -2147483647 - 1, -65536, -32769, -32768, -32767, -256, -129, -128, -127, -1, 0, 1,
      127, 128, 255, 256, 32767, 32768, 65535, 65536, 16777216, 2147483647 }

XdrArgs ==
    [ op : {"get_bytes"}, x : UNION { OpaqueBytes(n) : n \in 0..MaxOpaque },
      before : 0..1, after : 0..1 ]
    \cup [ op : {"get_i8", "get_i16", "get_u8", "get_u16"}, v : NarrowValues ]

XdrInput(a) ==
    IF a.op = "get_bytes"
    THEN Fill(4 * a.before, FillByte) \o XdrOpaque(a.x) \o Fill(4 * a.after, FillByte)
    ELSE I32Bytes(a.v)

InitXdr ==
    /\ arg \in XdrArgs
    /\ data = XdrInput(arg)
    /\ offset = IF arg.op = "get_bytes" THEN 4 * arg.before ELSE 0
    /\ endian = "Big"
    /\ value = NoResult
    /\ out = <<>>
    /\ result = NoResult
    /\ salt = Zeros(8)
    /\ sha = <<>>
    /\ changed = 0
    /\ pc = "Xdr"

XdrGetBytes ==
    /\ pc = "Xdr"
    /\ arg.op = "get_bytes"
    /\ Decoded(xdr_get_bytes(data, offset), "XdrDone")

XdrGetI8 ==
    /\ pc = "Xdr"
    /\ arg.op = "get_i8"
    /\ Decoded(xdr_get_i8(data, offset), "XdrDone")

XdrGetI16 ==
    /\ pc = "Xdr"
    /\ arg.op = "get_i16"
    /\ Decoded(xdr_get_i16(data, offset), "XdrDone")

XdrGetU8 ==
    /\ pc = "Xdr"
    /\ arg.op = "get_u8"
    /\ Decoded(xdr_get_u8(data, offset), "XdrDone")

XdrGetU16 ==
    /\ pc = "Xdr"
    /\ arg.op = "get_u16"
    /\ Decoded(xdr_get_u16(data, offset), "XdrDone")

NextXdr == XdrGetBytes \/ XdrGetI8 \/ XdrGetI16 \/ XdrGetU8 \/ XdrGetU16

SpecXdr == InitXdr /\ [][NextXdr]_vars

-----------------------------------------------------------------------------
(* A label read at the offset of the first label of the smallest vdev:     *)
(* LabelDecode::from_bytes, a change of one part of the label, and         *)
(* LabelDecode::from_bytes again.  Two slots hold what a writer left or a  *)
(* damaged uberblock, the rest is zero.  data is the label in its parts,   *)
(* each part some bytes and the number of zero bytes after them: the       *)
(* blank, the boot header's payload and tail, the NV pairs' payload and    *)
(* tail, and the 128 slots.  offset is the offset of the label, result the *)
(* uber_blocks of the first decode, changed the slot that was changed      *)
(* (Label_UBER_COUNT when it was no slot).                                 *)

SlotKinds == {"zero", "valid", "moved", "magic"}

\* a slot at the offset o of the vdev: nothing, an uberblock with its
\* checksum, one with the checksum of the next slot's offset, or one whose
\* magic is not an uberblock's
SlotWritten(kind, o, reg) ==
    IF kind = "zero" THEN [data |-> Zeros(UberBlock_LENGTH), sha |-> reg]
    ELSE label_checksum(
             (IF kind = "magic" THEN <<1, 2, 3, 4, 5, 6, 7, 8>> ELSE <<>>)
                 \o SubSeq(Lay("Little", UBWords(BPWords(<<Zeros(8), Zeros(8), Zeros(8)>>, 0, 0,
                                                           <<0, 0, 0, 0, 0, 0>>),
                                                   <<Zeros(8), Zeros(8), Zeros(8)>>)),
                           IF kind = "magic" THEN 9 ELSE 1, UberBlock_LENGTH - PADDING_SIZE - LABEL_LENGTH)
                 \o Zeros(PADDING_SIZE + LABEL_LENGTH),
             Numeral(IF kind = "moved" THEN o + UberBlock_LENGTH ELSE o, 8), "Little", reg)

LabelArgs == [ i : {0, 127}, ki : SlotKinds \ {"zero"}, j : {64}, kj : {"zero", "valid"} ]

SlotAt(label, i) == label + Blank_LENGTH + BootHeader_LENGTH + NvPairs_LENGTH + i * UberBlock_LENGTH

ZeroPart(n) == [bytes |-> <<>>, zeros |-> n]

\* the part of a slot that was written
SlotPart(kind, w) == IF kind = "zero" THEN ZeroPart(UberBlock_LENGTH) ELSE [bytes |-> w, zeros |-> 0]

\* the place of slot i among the parts
SlotIndex(i) == 6 + i

\* the parts of a label of zeros
LabelZero ==
    <<ZeroPart(Blank_LENGTH), ZeroPart(BootHeader_LENGTH - LABEL_LENGTH), ZeroPart(LABEL_LENGTH),
      ZeroPart(NvPairs_LENGTH - LABEL_LENGTH), ZeroPart(LABEL_LENGTH)>>
    \o [i \in 1..Label_UBER_COUNT |-> ZeroPart(UberBlock_LENGTH)]

\* the bytes of the parts lo..hi
RECURSIVE LabelBytes(_, _, _)
LabelBytes(parts, lo, hi) ==
    IF lo = hi THEN parts[lo].bytes \o Zeros(parts[lo].zeros)
    ELSE LabelBytes(parts, lo, (lo + hi) \div 2) \o LabelBytes(parts, (lo + hi) \div 2 + 1, hi)

\* the label at the offset `label` of the vdev, and the digest history
LabelWritten(a, label) ==
    CHOOSE w \in UNION {
        { [data |-> [LabelZero EXCEPT ![SlotIndex(a.i)] = SlotPart(a.ki, first.data),
                                      ![SlotIndex(a.j)] = SlotPart(a.kj, second.data)],
           sha |-> second.sha] :
          second \in {SlotWritten(a.kj, SlotAt(label, a.j), first.sha)} } :
        first \in {SlotWritten(a.ki, SlotAt(label, a.i), <<>>)} } : TRUE

InitLabelDecode ==
    /\ arg \in LabelArgs
    /\ offset = Label_offsets(4 * Label_LENGTH).val[1]
    /\ \E w \in {LabelWritten(arg, offset)} : data = w.data /\ sha = w.sha
    /\ endian = "Little"
    /\ value = NoResult
    /\ out = <<>>
    /\ result = NoResult
    /\ salt = Zeros(8)
    /\ changed = Label_UBER_COUNT
    /\ pc = "LabelRead"

LabelDecode ==
    /\ pc \in {"LabelRead", "LabelChanged"}
    /\ \E r \in {LabelDecode_from_bytes(LabelBytes(data, 1, Len(data)), offset, sha)} :
           /\ value' = WithoutSha(r)
           /\ sha' = r.sha
    /\ pc' = IF pc = "LabelRead" THEN "LabelDecoded" ELSE "LabelDecodedAgain"
    /\ UNCHANGED <<data, endian, offset, out, result, salt, changed, arg>>

\* another part of the label is written: a byte of the blank, the boot
\* header's checksum, the magic of the NV pairs' checksum tail, or a slot
LabelChange ==
    /\ pc = "LabelDecoded"
    /\ \/ /\ data' = [data EXCEPT ![1] = [bytes |-> <<1>>, zeros |-> Blank_LENGTH - 1]]
          /\ changed' = Label_UBER_COUNT
          /\ sha' = sha
       \/ /\ \E c \in {label_checksum(LabelBytes(data, 2, 3),
                                      Numeral(offset + BootHeader_OFFSET, 8), "Big", sha)} :
                 /\ data' = [data EXCEPT ![3] =
                                [bytes |-> SubSeq(c.data, BootHeader_LENGTH - LABEL_LENGTH + 1,
                                                  BootHeader_LENGTH),
                                 zeros |-> 0]]
                 /\ sha' = c.sha
          /\ changed' = Label_UBER_COUNT
       \/ /\ data' = [data EXCEPT ![5] = [bytes |-> <<1>>, zeros |-> LABEL_LENGTH - 1]]
          /\ changed' = Label_UBER_COUNT
          /\ sha' = sha
       \/ /\ \E k \in {5, arg.j}, kind \in {"valid", "magic"} :
                 \E w \in {SlotWritten(kind, SlotAt(offset, k), sha)} :
                     /\ data' = [data EXCEPT ![SlotIndex(k)] = SlotPart(kind, w.data)]
                     /\ sha' = w.sha
                     /\ changed' = k
    /\ result' = value.uber_blocks
    /\ pc' = "LabelChanged"
    /\ UNCHANGED <<endian, offset, value, out, salt, arg>>

NextLabelDecode == LabelDecode \/ LabelChange

SpecLabelDecode == InitLabelDecode /\ [][NextLabelDecode]_vars

-----------------------------------------------------------------------------
(* An object set read from a cursor that holds the first arg.len bytes of  *)
(* a written V3 object set followed by other bytes.  arg.fault is the part *)
(* of the image that is not what a writer leaves.                          *)

OsLens == {0, 8, 512, 1016, 1023, 1024, 1025, 1536, 2047, 2048, 2049, 2560, 3072, 4088, 4095,
           4096, 4097, 4104, 5120}

OsFaults == {"none", "type", "flags", "padding", "user_used", "project_used", "tail_padding"}

\* the offset in the image of the first byte that a fault changes
OsFaultAt(fault) ==
    CASE fault = "type" -> 704
      [] fault = "flags" -> 712
      [] fault = "padding" -> 784
      [] fault = "user_used" -> 1024
      [] fault = "project_used" -> 2048
      [] fault = "tail_padding" -> 2560
      [] OTHER -> 5120

OsDnode(l, dmu) == DnBytes(l, dmu, 1, 0, <<0, 0>>, 0, Zeros(448))

OsImage(l, fault) ==
    OsDnode(l, 19) \o Zeros(192)
    \o EndianEncode(l, Numeral(IF fault = "type" THEN 7 ELSE 2, 8))
    \o EndianEncode(l, Numeral(IF fault = "flags" THEN 8 ELSE 5, 8))
    \o Fill(32, 3) \o Fill(32, 4)
    \o (IF fault = "padding" THEN <<0, 0, 0, 0, 1, 0, 0, 0>> ELSE Zeros(8)) \o Zeros(232)
    \o OsDnode(l, IF fault = "user_used" THEN 54 ELSE 19) \o OsDnode(l, 19)
    \o OsDnode(l, IF fault = "project_used" THEN 54 ELSE 19)
    \o (IF fault = "tail_padding" THEN <<1>> ELSE <<0>>) \o Zeros(1535)
    \o Fill(1024, 5)

InitObjectSet ==
    /\ arg \in [len : OsLens, fault : OsFaults]
    /\ endian \in Endians
    /\ data = SubSeq(OsImage(endian, arg.fault), 1, arg.len)
    /\ offset = 0
    /\ value = NoResult
    /\ out = <<>>
    /\ result = NoResult
    /\ salt = Zeros(8)
    /\ sha = <<>>
    /\ changed = 0
    /\ pc = "ObjectSet"

ObjectSetDecode ==
    /\ pc = "ObjectSet"
    /\ Decoded(ObjectSet_from_decoder(data, offset, endian), "ObjectSetDecoded")

NextObjectSet == ObjectSetDecode

SpecObjectSet == InitObjectSet /\ [][NextObjectSet]_vars

-----------------------------------------------------------------------------
(* An NV list whose one pair is an array of nested lists: the pair is read *)
(* and ArrayDecoder::get is called until the array ends.  arg is the       *)
(* nested lists as they were written, result the ArrayDecoder, offset the  *)
(* cursor of its xdr decoder, changed its index and out what the calls     *)
(* returned.                                                               *)

MaxNested == 3

NestedLists ==
    { NvListBody(pairs) :
      pairs \in { <<>>, <<NvPair(<<98>>, 1, 0, <<>>, 0)>>,
                  <<NvPair(<<98>>, 23, 1, XdrU32(7), 0),
                    NvPair(<<99, 100>>, 8, 1, <<0, 0, 0, 0, 0, 0, 1, 2>>, 0)>> } }

InitNvArray ==
    /\ arg \in UNION { [1..n -> NestedLists] : n \in 1..MaxNested }
    /\ \E e \in {0, 1} :
           data = <<1, e, 0, 0>>
                  \o NvListBody(<<NvPair(<<97>>, NvListArray, Len(arg), Concat(arg), 0)>>)
    /\ endian = "Big"
    /\ offset = 0
    /\ value = NoResult
    /\ out = <<>>
    /\ result = NoResult
    /\ salt = Zeros(8)
    /\ sha = <<>>
    /\ changed = 0
    /\ pc = "NvArray"

NvArrayPair ==
    /\ pc = "NvArray"
    /\ \E h \in {nv_from_bytes(data)} :
           \E r \in {next_pair(h.val, SubSeq(data, 5, Len(data)), h.off)} :
               /\ value' = r
               /\ result' = r.val.value
    /\ pc' = "NvArrayGets"
    /\ UNCHANGED <<data, endian, offset, out, salt, sha, changed, arg>>

NvArrayGet ==
    /\ pc = "NvArrayGets"
    /\ \E r \in {ArrayDecoder_get(result, offset, changed)} :
           /\ value' = r
           /\ offset' = r.off
           /\ out' = Append(out, r)
    /\ changed' = IF changed < result.count THEN changed + 1 ELSE changed
    /\ pc' = IF changed < result.count THEN "NvArrayGets" ELSE "NvArrayEnd"
    /\ UNCHANGED <<data, endian, result, salt, sha, arg>>

NextNvArray == NvArrayPair \/ NvArrayGet

SpecNvArray == InitNvArray /\ [][NextNvArray]_vars

-----------------------------------------------------------------------------
(* An xdr Decoder over the first bytes of three words and a caller that    *)
(* makes any calls in any order.  offset is the cursor, arg the last call  *)
(* and value what it returned.                                             *)

MaxCount == 8

XdrImage == <<0, 0, 0, 3, 97, 98, 99, 0, 0, 0, 0, 1>>

InitXdrCursor ==
    /\ data \in Truncations(XdrImage, 0..Len(XdrImage))
    /\ offset = 0
    /\ arg = [op |-> "from_bytes", n |-> 0]
    /\ endian = "Big"
    /\ value = NoResult
    /\ out = <<>>
    /\ result = NoResult
    /\ salt = Zeros(8)
    /\ sha = <<>>
    /\ changed = 0
    /\ pc = "XdrCursor"

\* the call left the cursor at the offset of its result
XdrCalled(r, op, n) ==
    /\ pc = "XdrCursor"
    /\ value' = r
    /\ offset' = r.off
    /\ arg' = [op |-> op, n |-> n]
    /\ UNCHANGED <<data, endian, out, result, salt, sha, changed, pc>>

XdrReset == XdrCalled(Ok(<<>>, 0), "reset", 0)

XdrSeek == \E n \in 0..MaxCount : XdrCalled(xdr_seek(data, n), "seek", n)

XdrSkip == \E n \in 0..MaxCount : XdrCalled(xdr_skip(data, offset, n), "skip", n)

XdrRewind == \E n \in 0..MaxCount : XdrCalled(xdr_rewind(data, offset, n), "rewind", n)

XdrGetNBytes == \E n \in 0..MaxCount : XdrCalled(xdr_get_n_bytes(data, offset, n), "get_n_bytes", n)

XdrGetOpaque == XdrCalled(xdr_get_bytes(data, offset), "get_bytes", 0)

XdrGetStr == XdrCalled(xdr_get_str(data, offset), "get_str", 0)

XdrGetScalar ==
    \/ XdrCalled(xdr_get_u32(data, offset), "get_u32", 0)
    \/ XdrCalled(xdr_get_8_bytes(data, offset), "get_u64", 0)
    \/ XdrCalled(xdr_get_bool(data, offset), "get_bool", 0)
    \/ XdrCalled(xdr_get_u8(data, offset), "get_u8", 0)

NextXdrCursor ==
    \/ XdrReset \/ XdrSeek \/ XdrSkip \/ XdrRewind
    \/ XdrGetNBytes \/ XdrGetOpaque \/ XdrGetStr \/ XdrGetScalar

SpecXdrCursor == InitXdrCursor /\ [][NextXdrCursor]_vars

-----------------------------------------------------------------------------
(* An endian Decoder and a caller that makes any calls in any order.       *)
(* offset is the cursor, changed the cursor before the last call, arg that *)
(* call and the bytes it asked for, value what it returned.                *)

MaxBytes == 9

DecoderImage == <<0, 0, 0, 7, 0, 1, 0, 0, 0, 0>>

InitCursor ==
    /\ data \in Truncations(DecoderImage, 0..Len(DecoderImage))
    /\ endian \in Endians
    /\ offset = 0
    /\ changed = 0
    /\ arg = [op |-> "from_bytes", n |-> 0]
    /\ value = Ok(<<>>, 0)
    /\ out = <<>>
    /\ result = NoResult
    /\ salt = Zeros(8)
    /\ sha = <<>>
    /\ pc = "Cursor"

\* the call left the cursor at the offset of its result
CursorCalled(r, op, n) ==
    /\ pc = "Cursor"
    /\ value' = r
    /\ offset' = r.off
    /\ changed' = offset
    /\ arg' = [op |-> op, n |-> n]
    /\ UNCHANGED <<data, endian, out, result, salt, sha, pc>>

CursorGetU8 == CursorCalled(get_u8(data, offset), "get", 1)

CursorGetU16 == CursorCalled(get_u16(data, offset, endian), "get", 2)

CursorGetU32 == CursorCalled(get_u32(data, offset, endian), "get", 4)

CursorGetU64 == CursorCalled(get_u64(data, offset, endian), "get", 8)

CursorGetBytes == \E n \in 0..MaxBytes : CursorCalled(get_bytes(data, offset, n), "get", n)

CursorSkip == \E n \in 0..MaxBytes : CursorCalled(skip(data, offset, n), "skip", n)

CursorSkipZeroPadding ==
    \E n \in 0..MaxBytes : CursorCalled(skip_zero_padding(data, offset, n), "skip", n)

CursorRewind == \E n \in 0..MaxBytes : CursorCalled(rewind(offset, n), "rewind", n)

CursorReset == CursorCalled(Ok(<<>>, 0), "reset", 0)

NextCursor ==
    \/ CursorGetU8 \/ CursorGetU16 \/ CursorGetU32 \/ CursorGetU64 \/ CursorGetBytes
    \/ CursorSkip \/ CursorSkipZeroPadding \/ CursorRewind \/ CursorReset

SpecCursor == InitCursor /\ [][NextCursor]_vars

-----------------------------------------------------------------------------
(* A value that a caller built, some of its fields out of range, encoded   *)
(* into a buffer of arg.room bytes.  arg is the call, the fields at fault  *)
(* and the room; value the value; out the buffer and result the encoder's  *)
(* state after the call.                                                   *)

EncDvas == <<<<0, 18, 52, 86, 7, 0, 0, 8>>, <<128, 0, 0, 0, 0, 0, 0, 16>>, Zeros(8)>>

\* a block pointer of each variant as the decoder returns it
EncPointer(variant) ==
    BlockPointer_from_decoder(
        Lay("Big", CASE variant = "Regular" -> BPWords(EncDvas, 31, 3, <<10, 2, 225, 0, 0, 5>>)
                     [] variant = "Encrypted" -> BPWords(EncDvas, 37, 3, <<10, 2, 225, 0, 0, 5>>)
                     [] OTHER -> BPWords(EncDvas, 5, 129, <<10, 1, 2, 0, 0, 5>>)),
        0, "Big").val

EncDnode ==
    Dnode_from_decoder(DnBytes("Big", 19, 1, 0, <<0, 64>>, 0,
                               Lay("Big", BPWords(EncDvas, 31, 3, <<10, 2, 225, 0, 0, 5>>))
                               \o Fill(320, 5)), 0, "Big").val

\* v with the field f out of range
Faulty(v, f) ==
    CASE f = "asize" -> [v EXCEPT !.asize = ASIZE_MASK_SHIFTED + 1]
      [] f = "vdev" -> [v EXCEPT !.vdev = VDEV_MASK_SHIFTED + 1]
      [] f = "offset" -> [v EXCEPT !.offset[1] = 128]
      [] f = "dva1" -> [v EXCEPT !.dvas[1].vdev = VDEV_MASK_SHIFTED + 1]
      [] f = "dva2" -> [v EXCEPT !.dvas[2].asize = ASIZE_MASK_SHIFTED + 1]
      [] f = "dva3" -> [v EXCEPT !.dvas[3].offset[1] = 255]
      [] f = "level" -> [v EXCEPT !.level = LEVEL_MASK_SHIFTED + 1]
      [] f = "logical_size" -> [v EXCEPT !.logical_size = 33554432]
      [] f = "physical_size" -> [v EXCEPT !.physical_size = MAX_PAYLOAD_LENGTH + 1]
      [] f = "bonus_len" -> [v EXCEPT !.bonus_len = <<1, 65>>]
      [] f = "pointer" -> [v EXCEPT !.tail.ptrs[1].level = 255]

RECURSIVE FaultyAll(_, _)
FaultyAll(v, fs) ==
    IF fs = {} THEN v
    ELSE FaultyAll(Faulty(v, CHOOSE f \in fs : TRUE), fs \ {CHOOSE f \in fs : TRUE})

EncodeArgs ==
    [call : {"Dva"}, faults : SUBSET {"asize", "vdev", "offset"}, room : {0, 8, 16, 24}]
    \cup [call : {"Regular"}, faults : SUBSET {"dva1", "dva3", "level"}, room : {0, 40, 128, 136}]
    \cup [call : {"Encrypted"}, faults : SUBSET {"dva2", "level"}, room : {0, 40, 128, 136}]
    \cup [call : {"Embedded"}, faults : SUBSET {"physical_size", "level", "logical_size"},
          room : {0, 40, 128, 136}]
    \cup [call : {"Dnode"}, faults : SUBSET {"bonus_len", "pointer"}, room : {0, 9, 100, 512}]

InitEncode ==
    /\ arg \in EncodeArgs
    /\ endian \in Endians
    /\ value = FaultyAll(CASE arg.call = "Dva" -> Dva_from_decoder(Lay("Big", EncDvas), 0, "Big").val
                           [] arg.call = "Dnode" -> EncDnode
                           [] OTHER -> EncPointer(arg.call),
                         arg.faults)
    /\ out = Fill(arg.room, FillByte)
    /\ data = <<>>
    /\ offset = 0
    /\ result = NoResult
    /\ salt = Zeros(8)
    /\ sha = <<>>
    /\ changed = 0
    /\ pc = "Encode"

EncodeDva ==
    /\ pc = "Encode"
    /\ arg.call = "Dva"
    /\ Encoded(Dva_to_encoder(value, Encoder(out), endian), "Encoded")

EncodeBlockPointer ==
    /\ pc = "Encode"
    /\ arg.call \in {"Regular", "Encrypted", "Embedded"}
    /\ Encoded(BlockPointer_to_encoder(value, Encoder(out), endian), "Encoded")

EncodeDnode ==
    /\ pc = "Encode"
    /\ arg.call = "Dnode"
    /\ Encoded(Dnode_to_encoder(value, Encoder(out), endian), "Encoded")

NextEncode == EncodeDva \/ EncodeBlockPointer \/ EncodeDnode

SpecEncode == InitEncode /\ [][NextEncode]_vars

-----------------------------------------------------------------------------
(* BlockPointer::from_decoder in its two steps, on a block pointer that    *)
(* starts at the cursor and that the input may cut short.  changed is the  *)
(* offset at entry.                                                        *)

PeekLens == {0, 8, 47, 48, 52, 55, 56, 100, 128}

PeekOffsets == {0, 16}

PeekPointers ==
    { BPWords(EncDvas, top, comp, <<10, 1, 2, 0, 0, 5>>) : top \in {31, 37}, comp \in {3, 129} }

InitPeek ==
    /\ \E ws \in PeekPointers, l \in Endians, n \in PeekLens, o \in PeekOffsets :
           /\ data = Fill(o, FillByte) \o SubSeq(Lay(l, ws), 1, n)
           /\ offset = o
           /\ changed = o
    /\ endian \in Endians
    /\ value = NoResult
    /\ out = <<>>
    /\ result = NoResult
    /\ salt = Zeros(8)
    /\ sha = <<>>
    /\ arg = 0
    /\ pc = "Peek"

BPPeek ==
    /\ pc = "Peek"
    /\ Decoded(BlockPointer_select(BlockPointer_flags(data, offset, endian)), "Peeked")

BPVariant ==
    /\ pc = "Peeked"
    /\ Decoded(BlockPointer_variant(data, value, endian), "Selected")

NextPeek == BPPeek \/ BPVariant

SpecPeek == InitPeek /\ [][NextPeek]_vars

-----------------------------------------------------------------------------
(* An NV list of at most one well-formed pair and then a pair whose        *)
(* encoded size differs by result.extra from the bytes it takes.  arg is   *)
(* the Decoder that from_bytes returned, changed the cursor before the     *)
(* last next_pair, result.start the first byte of the second pair and      *)
(* result.rem whether its value takes all the bytes that its size leaves.  *)

SizeExtras == {-12, -8, -4, 0, 4, 8}

\* a pair as NvPair lays it out, its encoded size off by extra
SizedPair(name, data_type, count, v, extra) ==
    XdrU32(16 + Len(XdrOpaque(name)) + Len(v) + extra) \o XdrU32(32)
        \o XdrOpaque(name) \o XdrU32(data_type) \o XdrU32(count) \o v

SizedValues ==
    { [data_type |-> 1, count |-> 0, v |-> <<>>],
      [data_type |-> 23, count |-> 1, v |-> XdrU32(7)],
      [data_type |-> 8, count |-> 1, v |-> <<0, 0, 0, 0, 0, 0, 1, 2>>],
      [data_type |-> 9, count |-> 1, v |-> XdrOpaque(<<104, 105>>)],
      [data_type |-> 13, count |-> 2, v |-> XdrU32(1) \o XdrU32(2)],
      [data_type |-> 16, count |-> 1, v |-> <<0, 0, 0, 0, 0, 0, 0, 9>>],
      [data_type |-> NvList, count |-> 1, v |-> NvListBody(<<>>)],
      [data_type |-> NvListArray, count |-> 1, v |-> NvListBody(<<>>)] }

InitNvSize ==
    /\ \E first \in {<<>>, NvPair(<<98>>, 23, 1, XdrU32(7), 0)}, name \in NvNames,
          sv \in SizedValues, extra \in SizeExtras, e \in {0, 1} :
           /\ data = <<1, e, 0, 0>> \o XdrU32(0) \o XdrU32(1) \o first
                       \o SizedPair(name, sv.data_type, sv.count, sv.v, extra) \o Zeros(16)
           /\ result = [start |-> 8 + Len(first), extra |-> extra,
                        rem |-> sv.data_type \in {17, NvList, NvListArray}]
    /\ arg = nv_from_bytes(data).val
    /\ offset = nv_from_bytes(data).off
    /\ changed = 0
    /\ endian = "Big"
    /\ value = NoResult
    /\ out = <<>>
    /\ salt = Zeros(8)
    /\ sha = <<>>
    /\ pc = "NvSize"

NvSizeNextPair ==
    /\ pc = "NvSize"
    /\ \E r \in {next_pair(arg, SubSeq(data, 5, Len(data)), offset)} :
           /\ value' = r
           /\ offset' = r.off
           /\ changed' = offset
           /\ pc' = IF r.ok /\ r.val.some /\ offset < result.start THEN "NvSize" ELSE "NvSized"
    /\ UNCHANGED <<data, endian, out, result, salt, sha, arg>>

NextNvSize == NvSizeNextPair

SpecNvSize == InitNvSize /\ [][NextNvSize]_vars

-----------------------------------------------------------------------------
(* A block pointer or a dnode in the middle of a buffer: arg.o bytes       *)
(* before it and FixedAfter bytes after it.  changed is the cursor at      *)
(* entry.                                                                  *)

FixedAfter == 72

FixedBefore == {0, 8}

InitFixed ==
    /\ \E l \in Endians, o \in FixedBefore :
           /\ endian = l
           /\ offset = o
           /\ changed = o
           /\ \/ \E b \in BPInputs :
                     /\ data = Fill(o, FillByte) \o b \o Fill(FixedAfter, FillByte)
                     /\ arg = [call |-> "BlockPointer", len |-> Len(b)]
              \/ \E b \in DnodeInputs(l) :
                     /\ data = Fill(o, FillByte) \o b \o Fill(FixedAfter, FillByte)
                     /\ arg = [call |-> "Dnode", len |-> Len(b)]
    /\ value = NoResult
    /\ out = <<>>
    /\ result = NoResult
    /\ salt = Zeros(8)
    /\ sha = <<>>
    /\ pc = "Fixed"

FixedBlockPointer ==
    /\ pc = "Fixed"
    /\ arg.call = "BlockPointer"
    /\ Decoded(BlockPointer_from_decoder(data, offset, endian), "FixedDecoded")

FixedDnode ==
    /\ pc = "Fixed"
    /\ arg.call = "Dnode"
    /\ Decoded(Dnode_from_decoder(data, offset, endian), "FixedDecoded")

NextFixed == FixedBlockPointer \/ FixedDnode

SpecFixed == InitFixed /\ [][NextFixed]_vars

-----------------------------------------------------------------------------
(* An NV list Decoder whose buffer goes on after the terminator of the     *)
(* list, as the 112 KiB of a label's NV pairs do.  arg is the Decoder,     *)
(* offset the cursor of its xdr decoder, changed the cursor before the     *)
(* last next_pair, result.nones the number of times next_pair returned     *)
(* None since the last reset, counted up to two.                           *)

NvAfter == { <<>>, Zeros(4), Zeros(8), Zeros(16), NvPair(<<98>>, 23, 1, XdrU32(7), 0),
             NvPair(<<98>>, 1, 0, <<>>, 0) \o Zeros(8) }

InitNvEnd ==
    /\ \E e \in {0, 1}, pairs \in {<<>>, NvPair(<<97>>, 1, 0, <<>>, 0),
                                   NvPair(<<97>>, 8, 1, <<0, 0, 0, 0, 0, 0, 1, 2>>, 0)},
          after \in NvAfter :
           data = <<1, e, 0, 0>> \o XdrU32(0) \o XdrU32(1) \o pairs \o Zeros(8) \o after
    /\ arg = nv_from_bytes(data).val
    /\ offset = nv_from_bytes(data).off
    /\ changed = 0
    /\ result = [nones |-> 0]
    /\ endian = "Big"
    /\ value = NoResult
    /\ out = <<>>
    /\ salt = Zeros(8)
    /\ sha = <<>>
    /\ pc = "NvCreated"

NvEndNextPair ==
    /\ \E r \in {next_pair(arg, SubSeq(data, 5, Len(data)), offset)} :
           /\ value' = r
           /\ offset' = r.off
           /\ changed' = offset
           /\ result' = [nones |-> IF r.ok /\ ~r.val.some /\ result.nones < 2
                                   THEN result.nones + 1 ELSE result.nones]
    /\ pc' = "NvCalled"
    /\ UNCHANGED <<data, endian, out, salt, sha, arg>>

NvEndReset ==
    /\ pc = "NvCalled"
    /\ offset' = nv_reset(SubSeq(data, 5, Len(data)))
    /\ result' = [nones |-> 0]
    /\ value' = NoResult
    /\ pc' = "NvReset"
    /\ UNCHANGED <<data, endian, out, salt, sha, changed, arg>>

NextNvEnd == NvEndNextPair \/ NvEndReset

SpecNvEnd == InitNvEnd /\ [][NextNvEnd]_vars

-----------------------------------------------------------------------------
(* An ArrayDecoder that next_pair returned for an array pair of up to      *)
(* MaxElems well-formed elements, and a caller that calls get and reset in *)
(* any order.  arg is the data type and the elements as they were          *)
(* written, result the ArrayDecoder, offset the cursor of its xdr decoder, *)
(* changed its index, out.gets the gets since the last reset and           *)
(* out.restarted whether there was a reset.                                *)

MaxElems == 3

Uint32Array == 14

Uint64Array == 16

StringArray == 17

ArrayElems(data_type) ==
    CASE data_type = Uint32Array -> {XdrU32(7), XdrU32(256)}
      [] data_type = Uint64Array -> {<<0, 0, 0, 0, 0, 0, 1, 2>>, <<128, 0, 0, 0, 0, 0, 0, 0>>}
      [] data_type = StringArray -> {XdrOpaque(<<104, 105>>), XdrOpaque(<<97, 98, 99, 100, 101>>)}
      [] OTHER -> {NvListBody(<<>>), NvListBody(<<NvPair(<<98>>, 1, 0, <<>>, 0)>>)}

ArrayPair(a) ==
    LET body == NvListBody(<<NvPair(<<97>>, a.data_type, Len(a.elems), Concat(a.elems), 0)>>)
        nvd  == nv_from_bytes(<<1, 1, 0, 0>> \o body)
    IN  next_pair(nvd.val, body, nvd.off)

InitArray ==
    /\ \E data_type \in {Uint32Array, Uint64Array, StringArray, NvListArray} :
           \E n \in 0..MaxElems : \E elems \in [1..n -> ArrayElems(data_type)] :
               arg = [data_type |-> data_type, elems |-> elems]
    /\ result = ArrayPair(arg).val.value
    /\ data = result.data
    /\ offset = 0
    /\ changed = 0
    /\ out = [gets |-> 0, restarted |-> FALSE]
    /\ endian = "Big"
    /\ value = NoResult
    /\ salt = Zeros(8)
    /\ sha = <<>>
    /\ pc = "Array"

ArrayCalled(r) ==
    /\ out.gets < result.count + 2
    /\ value' = r
    /\ offset' = r.off
    /\ changed' = ArrayDecoder_index(result, changed)
    /\ out' = [out EXCEPT !.gets = out.gets + 1]
    /\ pc' = "ArrayGot"
    /\ UNCHANGED <<data, endian, result, salt, sha, arg>>

ArrayGetU32 ==
    /\ arg.data_type = Uint32Array
    /\ ArrayCalled(ArrayDecoder_get_u32(result, offset, changed))

ArrayGetU64 ==
    /\ arg.data_type = Uint64Array
    /\ ArrayCalled(ArrayDecoder_get_u64(result, offset, changed))

ArrayGetStr ==
    /\ arg.data_type = StringArray
    /\ ArrayCalled(ArrayDecoder_get_str(result, offset, changed))

ArrayGetList ==
    /\ arg.data_type = NvListArray
    /\ ArrayCalled(ArrayDecoder_get(result, offset, changed))

ArrayReset ==
    /\ pc = "ArrayGot"
    /\ offset' = 0
    /\ changed' = 0
    /\ out' = [gets |-> 0, restarted |-> TRUE]
    /\ value' = NoResult
    /\ pc' = "Array"
    /\ UNCHANGED <<data, endian, result, salt, sha, arg>>

NextArray == ArrayGetU32 \/ ArrayGetU64 \/ ArrayGetStr \/ ArrayGetList \/ ArrayReset

SpecArray == InitArray /\ [][NextArray]_vars

-----------------------------------------------------------------------------
(* The properties.                                                         *)

\* C1: every 128-byte input that BlockPointer::from_decoder decodes is
\* written back by BlockPointer::to_encoder, in the same endian, byte for
\* byte, the compression bits 32..38 of the flags word included.
C1_RoundTrip == pc = "BPEncoded" => (result.ok /\ result.off = BlockPointer_LENGTH /\ out = data)

\* a Regular block pointer with bit 37 of the flags set has been decoded
\* and encoded, and the bytes written are not the bytes read
C1_Lost ==
    /\ pc = "BPEncoded"
    /\ value.val.variant = "Regular"
    /\ EndianDecode(endian, Slice(data, 48, 8))[4] = 35
    /\ result.ok
    /\ out # data

\* C2: every 1024-byte input that UberBlock::from_bytes decodes at an
\* offset is written back by UberBlock::to_bytes at that offset byte for
\* byte, the 40-byte checksum tail included.
C2_RoundTrip == pc = "UBEncoded" => (result.ok /\ out = data)

\* an uberblock whose fields are little endian and whose label checksum is
\* big endian has been decoded and encoded, its block pointer has no
\* compression bit above bit 36, and the bytes written are not the bytes read
C2_MixedEndian ==
    /\ pc = "UBEncoded"
    /\ value.val.endian = "Little"
    /\ endian = "Big"
    /\ EndianDecode("Little", Slice(data, 88, 8))[4] < 32
    /\ result.ok
    /\ SubSeq(out, 1, 984) = SubSeq(data, 1, 984)
    /\ out # data

\* C3: every 512-byte input that Dnode::from_decoder decodes is written
\* back by Dnode::to_encoder, in the same endian, byte for byte, with any of
\* the five tails.
C3_RoundTrip == pc = "DnodeEncoded" => (result.ok /\ result.off = Dnode_LENGTH /\ out = data)

\* a dnode with two block pointers whose flags have bit 38 set has been
\* decoded and encoded: the head, the sizes and the bonus bytes are written
\* back, the bytes of the block pointers are not
C3_Lost ==
    /\ pc = "DnodeEncoded"
    /\ value.val.tail.kind = "Two"
    /\ EndianDecode(endian, Slice(data, 64 + 48, 8))[4] = 67
    /\ result.ok
    /\ SubSeq(out, 1, 64) = SubSeq(data, 1, 64)
    /\ SubSeq(out, 321, 512) = SubSeq(data, 321, 512)
    /\ out # data

\* C4: every 16-byte input that Dva::from_decoder decodes, the all-zero DVA
\* included, is written back by Dva::to_encoder, in the same endian, byte
\* for byte; the big endian bytes 00 12 34 56 07 00 00 08 80 00 00 00 00 00
\* 00 10 decode to vdev 0x123456, grid 7, asize 8, gang, offset 0x10.
C4_DvaRoundTrip ==
    /\ pc = "DvaEncoded" => (result.ok /\ result.off = Dva_LENGTH /\ out = data)
    /\ (pc # "Dva" /\ data = DvaExample /\ endian = "Big") =>
          /\ value.ok
          /\ value.val = [vdev |-> 1193046, grid |-> 7, asize |-> 8, is_gang |-> TRUE,
                          offset |-> <<0, 0, 0, 0, 0, 0, 0, 16>>]
    /\ (pc # "Dva" /\ IsZero(data) /\ Len(data) = Dva_LENGTH) => value.ok

C4_Example ==
    /\ pc = "DvaEncoded"
    /\ data = DvaExample
    /\ endian = "Big"
    /\ value.val.is_gang
    /\ out = DvaExample

\* C5: no entry point panics: on every input, every ChecksumType and every
\* vdev type the call returns Ok or an error value.
C5_NeverPanics == value.err # "Panic" /\ result.err # "Panic"

\* block_verify has been called with ChecksumType::Inherit and has panicked
C5_Panicked == pc = "BlockVerified" /\ arg = 0 /\ result.err = "Panic"

\* C6: label_checksum succeeds on every buffer of 40 bytes or more, and
\* label_verify at the offset of the checksum then succeeds, in either endian.
C6_ChecksumVerifies ==
    /\ (pc \in {"Summed", "SummedVerified"} /\ Len(data) >= LABEL_LENGTH) => result.ok
    /\ (pc = "SummedVerified" /\ result.ok /\ value.salt = salt) => value.ok

C6_Verified ==
    /\ pc = "SummedVerified"
    /\ endian = "Little"
    /\ Len(data) > LABEL_LENGTH
    /\ salt = <<0, 0, 0, 0, 0, 2, 0, 0>>
    /\ value.salt = salt
    /\ value.ok

\* C7: after label_checksum at an offset, label_verify at any other offset
\* fails with Mismatch.
C7_SaltMismatch ==
    (pc = "SummedVerified" /\ result.ok /\ value.salt # salt) =>
        (~value.ok /\ value.err = "Mismatch")

C7_OtherOffset ==
    /\ pc = "SummedVerified"
    /\ result.ok
    /\ salt = Zeros(8)
    /\ value.salt = <<0, 0, 0, 0, 0, 0, 0, 1>>
    /\ value.err = "Mismatch"

\* C8, as claimed: after label_checksum, changing any byte of the buffer,
\* the bytes of the 40-byte tail included, makes label_verify at the same
\* offset fail with Mismatch.
C8_AnyByteMismatch ==
    (pc = "TamperedVerified" /\ value.salt = salt) => (~value.ok /\ value.err = "Mismatch")

\* C8, amended: after label_checksum, changing one of the 8 bytes of the
\* magic makes label_verify at the same offset fail with EndianDecodeError,
\* and changing any other byte, the stored checksum words included, makes
\* it fail with Mismatch.
C8_ByteChanged ==
    (pc = "TamperedVerified" /\ value.salt = salt) =>
        /\ ~value.ok
        /\ value.err = IF changed > Len(data) - LABEL_LENGTH /\ changed <= Len(data) - 32
                       THEN "EndianDecodeError" ELSE "Mismatch"

\* a payload byte was changed and the verification failed with Mismatch
C8_PayloadChanged ==
    /\ pc = "TamperedVerified"
    /\ value.salt = salt
    /\ Len(data) > LABEL_LENGTH
    /\ changed = 1
    /\ value.err = "Mismatch"

\* C9: label_verify of an all-zero region of 40 bytes or more fails with
\* EmptyMagic at any offset, and UberBlock::from_bytes of 1024 zero bytes
\* fails with that label error before it decodes anything.
C9_EmptyMagic ==
    /\ (pc = "LabelVerified" /\ IsZero(data) /\ Len(data) >= LABEL_LENGTH) =>
          (~value.ok /\ value.err = "EmptyMagic")
    /\ (pc = "UBDecoded" /\ IsZero(data)) =>
          /\ ~value.ok
          /\ value.err = "LabelVerifyError"
          /\ value.cause = "EmptyMagic"
          /\ value.off = 0

C9_ZeroUberBlock ==
    /\ pc = "UBDecoded"
    /\ IsZero(data)
    /\ salt = <<0, 0, 0, 0, 0, 2, 0, 0>>
    /\ value.cause = "EmptyMagic"

\* C10: on a 128-byte input BlockPointer::from_decoder goes by bits 39 and
\* 61 of the flags alone: a value it returns is Embedded for (1,0),
\* Encrypted for (0,1) and Regular for (0,0), and it fails with
\* InvalidBlockPointerType exactly when both bits are set.
C10_VariantByBits ==
    (pc # "BP" /\ Len(data) = BlockPointer_LENGTH) =>
        LET embedded  == (IF endian = "Big" THEN data[52] ELSE data[53]) >= 128
            encrypted == ((IF endian = "Big" THEN data[49] ELSE data[56]) \div 32) % 2 = 1
        IN  /\ value.ok => value.val.variant = IF embedded THEN "Embedded"
                                               ELSE IF encrypted THEN "Encrypted"
                                               ELSE "Regular"
            /\ (embedded /\ encrypted) <=> (value.err = "InvalidBlockPointerType")

\* an input with both bits set has been refused
C10_BothBits ==
    /\ pc = "BPDecoded"
    /\ endian = "Little"
    /\ Len(data) = BlockPointer_LENGTH
    /\ data[53] >= 128
    /\ (data[56] \div 32) % 2 = 1
    /\ value.err = "InvalidBlockPointerType"

\* C11: a checksum tail written by ChecksumTail::to_bytes in endian e with
\* the four words w is decoded by ChecksumTail::from_bytes to endian e and
\* the words w, for both endians and all words.
C11_TailRoundTrip ==
    pc = "TailDecoded" =>
        /\ result.ok /\ result.off = ChecksumTail_LENGTH
        /\ value.ok /\ value.off = ChecksumTail_LENGTH
        /\ value.val.endian = arg.endian
        /\ value.val.value = arg.value

\* a little-endian tail whose words read differently in the other byte
\* order has been written and read back
C11_LittleTail ==
    /\ pc = "TailDecoded"
    /\ arg.endian = "Little"
    /\ arg.value[1] = <<1, 2, 3, 4, 5, 6, 7, 8>>
    /\ SubSeq(out, 1, 8) = <<17, 122, 12, 177, 122, 218, 16, 2>>
    /\ value.val.endian = "Little"

\* C12 as stated: a 512-byte input with the spill flag (bit 2 of the flags
\* byte) set and a pointer count other than 1 fails with
\* InvalidSpillBlockPointerCount, and a decoded Dnode has the Spill tail
\* exactly when the flag is set, and then one pointer.
C12_SpillAlways ==
    (pc = "DnodeDecoded" /\ Len(data) = Dnode_LENGTH) =>
        /\ (Bit(data[8], 2) = 1 /\ data[4] # 1) =>
               (~value.ok /\ value.err = "InvalidSpillBlockPointerCount")
        /\ value.ok => /\ (value.val.tail.kind = "Spill") <=> (Bit(data[8], 2) = 1)
                       /\ Bit(data[8], 2) = 1 => (data[4] = 1 /\ Len(pointers(value.val)) = 1)

\* C12: a 512-byte input with the spill flag set and a pointer count other
\* than 1 never decodes; its error is InvalidSpillBlockPointerCount when
\* the fields read before the check are valid (DMU type, bonus type,
\* checksum, compression, no flag outside DNODE_FLAG_ALL), and the error of
\* the first invalid one of them otherwise.  A decoded Dnode has the Spill
\* tail exactly when the flag is set, and then one pointer.
C12_SpillInvariant ==
    (pc = "DnodeDecoded" /\ Len(data) = Dnode_LENGTH) =>
        /\ (Bit(data[8], 2) = 1 /\ data[4] # 1) =>
               /\ ~value.ok
               /\ value.err = IF ~DmuType_try_from(data[1]) \/ ~DmuType_try_from(data[5])
                                 THEN "DmuTypeError"
                              ELSE IF ~ChecksumType_try_from(data[6]) THEN "ChecksumTypeError"
                              ELSE IF ~CompressionType_try_from(data[7])
                                 THEN "CompressionTypeError"
                              ELSE IF data[8] > DNODE_FLAG_ALL THEN "InvalidFlags"
                              ELSE "InvalidSpillBlockPointerCount"
        /\ value.ok => /\ (value.val.tail.kind = "Spill") <=> (Bit(data[8], 2) = 1)
                       /\ Bit(data[8], 2) = 1 => (data[4] = 1 /\ Len(pointers(value.val)) = 1)

\* an input with the spill flag and two pointers has been refused for its
\* pointer count
C12_SpillTwo ==
    /\ pc = "DnodeDecoded"
    /\ Len(data) = Dnode_LENGTH
    /\ data[8] = DNODE_FLAG_SPILL_BLOCK_POINTER
    /\ data[4] = 2
    /\ value.err = "InvalidSpillBlockPointerCount"

\* C13: when next_pair has returned Some zero or more times and then None,
\* with no error in between, the 8 bytes before the cursor are all zero.
C13_EndOfList ==
    pc = "NvEnd" =>
        /\ offset >= 16
        /\ Slice(SubSeq(data, 5, Len(data)), offset - 8, 8) = Zeros(8)

\* the end of a list has been reached after two pairs
C13_TwoPairsThenNone == pc = "NvEnd" /\ changed = 2 /\ value.ok /\ ~value.val.some

\* C14: a pool configuration with a hostname and no hostid fails with
\* InvalidConfiguration; with both it decodes to the host of exactly that id
\* and name; with neither it decodes to no host.
C14_HostRule ==
    pc = "PoolDecoded" =>
        /\ (arg.hostid = <<>> /\ arg.hostname # <<>> /\ arg.hostname[1].data_type = String)
               => (~result.ok /\ result.err = "InvalidConfiguration")
        /\ (arg.hostid # <<>> /\ arg.hostid[1].data_type = Uint64
                /\ arg.hostname # <<>> /\ arg.hostname[1].data_type = String)
               => /\ result.ok
                  /\ result.val.some
                  /\ result.val.id = arg.hostid[1].value
                  /\ result.val.name = arg.hostname[1].value
        /\ (arg.hostid = <<>> /\ arg.hostname = <<>>) => (result.ok /\ ~result.val.some)

\* a configuration with the hostname alone, after other pairs, has been refused
C14_HostNameAlone ==
    /\ pc = "PoolDecoded"
    /\ arg.lead
    /\ arg.hostid = <<>>
    /\ arg.hostname = <<[data_type |-> String, value |-> <<122>>]>>
    /\ result.err = "InvalidConfiguration"

C16_Alignment ==
    (pc = "XdrDone" /\ arg.op = "get_bytes") =>
        /\ value.ok
        /\ value.val = arg.x
        /\ offset % 4 = 0
        /\ offset = 4 * arg.before + Len(XdrOpaque(arg.x))

\* get_bytes has returned five bytes and skipped three of padding
C16_FiveBytes ==
    /\ pc = "XdrDone"
    /\ arg.op = "get_bytes"
    /\ arg.before = 1
    /\ Len(arg.x) = 5
    /\ value.val = arg.x
    /\ offset = 16

\* C17: get_i8 returns v for a 32-bit signed v in [-128, 127] and fails
\* with I8Conversion outside; get_i16 likewise for [-32768, 32767]
\* (I16Conversion); get_u8 for a 32-bit unsigned v in [0, 255]
\* (U8Conversion); get_u16 for [0, 65535] (U16Conversion).  The unsigned
\* value of a word whose signed number is negative is 2^32 more, out of range.
C17_Narrow ==
    (pc = "XdrDone" /\ arg.op # "get_bytes") =>
        LET lo == CASE arg.op = "get_i8" -> -128 [] arg.op = "get_i16" -> -32768
                    [] OTHER -> 0
            hi == CASE arg.op = "get_i8" -> 127 [] arg.op = "get_i16" -> 32767
                    [] arg.op = "get_u8" -> 255 [] OTHER -> 65535
            err == CASE arg.op = "get_i8" -> "I8Conversion"
                     [] arg.op = "get_i16" -> "I16Conversion"
                     [] arg.op = "get_u8" -> "U8Conversion" [] OTHER -> "U16Conversion"
        IN  IF arg.v >= lo /\ arg.v <= hi THEN value.ok /\ value.val = arg.v
            ELSE ~value.ok /\ value.err = err

\* get_i8 has refused 128
C17_I8Refused ==
    /\ pc = "XdrDone"
    /\ arg.op = "get_i8"
    /\ arg.v = 128
    /\ value.err = "I8Conversion"

\* C18: LabelDecode::from_bytes decodes each of the 128 uberblock slots on
\* its own: uber_blocks[i] is UberBlock::from_bytes of the 1024 bytes of
\* slot i at the offset of the label + 128 KiB + 1024 i; a change of
\* another slot, of the blank, of the boot header or of the NV pairs does
\* not change it; and a slot that fails leaves the others as they are.
C18_SlotsOnTheirOwn ==
    /\ pc \in {"LabelDecoded", "LabelDecodedAgain"} =>
           /\ Len(value.uber_blocks) = 128
           /\ \A bytes \in {LabelBytes(data, 1, Len(data))} : \A i \in 0..127 :
                  value.uber_blocks[i + 1]
                      = WithoutSha(UberBlock_from_bytes(
                            SubSeq(bytes, 131072 + 1024 * i + 1, 131072 + 1024 * i + 1024),
                            Numeral(offset + 131072 + 1024 * i, 8), sha))
    /\ pc = "LabelDecodedAgain" =>
           \A i \in 0..127 : i # changed => value.uber_blocks[i + 1] = result[i + 1]

\* after a change of slot 5, the last slot is still decoded and slot 64
\* still fails as empty
C18_LastSlotKept ==
    /\ pc = "LabelDecodedAgain"
    /\ changed = 5
    /\ arg.i = 127
    /\ value.uber_blocks[128].ok
    /\ value.uber_blocks[128] = result[128]
    /\ ~value.uber_blocks[6].ok
    /\ value.uber_blocks[6] # result[6]
    /\ value.uber_blocks[65].cause = "EmptyMagic"

\* the bytes that ObjectSet::from_decoder reads of a cursor of len bytes
\* that it decodes: 0 when no variant fits the length
OsRead(len) == IF len = 1024 \/ len = 2048 THEN len ELSE IF len >= 4096 THEN 4096 ELSE 0

\* C19 as stated: 1024 bytes left give V1, 2048 give V2, 4096 give V3, and
\* every other length, below, between or above, fails to decode.
C19_LengthSelects ==
    pc = "ObjectSetDecoded" =>
        /\ arg.len \notin {1024, 2048, 4096} => ~value.ok
        /\ value.ok =>
               value.val.extension.kind = (CASE arg.len = 1024 -> "None"
                                             [] arg.len = 2048 -> "Two"
                                             [] OTHER -> "Three")

\* C19: 1024 bytes left give V1, 2048 give V2, and 4096 or more give V3,
\* read from the first 4096 bytes with the rest left in the cursor; every
\* other length fails to decode, and so does a length whose bytes up to the
\* end of the variant are not an object set.
C19_LengthDecides ==
    pc = "ObjectSetDecoded" =>
        /\ value.ok <=> OsRead(arg.len) > 0 /\ OsFaultAt(arg.fault) >= OsRead(arg.len)
        /\ value.ok =>
               /\ value.off = OsRead(arg.len)
               /\ value.val.extension.kind = (CASE arg.len = 1024 -> "None"
                                                [] arg.len = 2048 -> "Two"
                                                [] OTHER -> "Three")

\* a cursor of 4097 bytes is decoded as V3 and keeps its last byte
C19_OneByteLeft ==
    /\ pc = "ObjectSetDecoded"
    /\ arg.len = 4097
    /\ value.ok
    /\ value.val.extension.kind = "Three"
    /\ DecoderLen(data, value.off) = 1

\* C20: for an NvListArray pair of n well-formed nested lists back to back,
\* the n calls of ArrayDecoder::get all succeed, the k-th Decoder is over
\* exactly the bytes of the k-th nested list, and the cursor after it is at
\* the first byte after that list.
C20_EachListCarved ==
    pc \in {"NvArrayGets", "NvArrayEnd"} =>
        \A k \in 1..Len(out) :
            k <= Len(arg) =>
                /\ out[k].ok
                /\ out[k].val.data = arg[k]
                /\ out[k].off = Len(Concat(SubSeq(arg, 1, k)))

\* of two nested lists the first call returns a Decoder over both and the
\* second call fails
C20_SecondGetFails ==
    /\ pc = "NvArrayGets"
    /\ Len(arg) = 2
    /\ Len(out) = 2
    /\ out[1].ok
    /\ out[1].val.data = arg[1] \o arg[2]
    /\ ~out[2].ok
    /\ out[2].err = "EndOfInput"

\* C21: after any calls of an xdr Decoder, failed ones included, the cursor
\* is at a multiple of 4 and not past the end of the data.
C21_CursorAligned ==
    pc = "XdrCursor" => offset % 4 = 0 /\ offset <= Len(data)

\* skip(7) of a Decoder over 7 bytes fails and leaves the cursor at 7
C21_SkipSeven ==
    /\ pc = "XdrCursor"
    /\ Len(data) = 7
    /\ arg = [op |-> "skip", n |-> 7]
    /\ ~value.ok
    /\ value.err = "EndOfInput"
    /\ offset = 7

\* C22: after any calls of an endian Decoder the offset is within 0 and the
\* capacity and len() is the capacity less the offset; a read or skip of n
\* bytes that succeeds moves the offset forward by n, a rewind(n) that
\* succeeds moves it back by n, and a call that fails (EndOfInput,
\* RewindPastStart, NonZeroPadding) leaves it where it was.
C22_OffsetMoves ==
    pc = "Cursor" =>
        /\ offset \in 0..Len(data)
        /\ DecoderLen(data, offset) = Len(data) - offset
        /\ value.ok /\ arg.op \in {"get", "skip"} => offset = changed + arg.n
        /\ value.ok /\ arg.op = "rewind" => offset = changed - arg.n
        /\ ~value.ok => /\ offset = changed
                        /\ value.err \in {"EndOfInput", "RewindPastStart", "NonZeroPadding"}

\* a skip_zero_padding over a byte that is not zero has failed at offset 2
C22_PaddingRefused ==
    /\ pc = "Cursor"
    /\ arg = [op |-> "skip", n |-> 4]
    /\ ~value.ok
    /\ value.err = "NonZeroPadding"
    /\ offset = 2
    /\ changed = 2

ValidationErrors ==
    {"InvalidVdev", "InvalidAsize", "InvalidOffset", "InvalidLevel", "InvalidLogicalSize",
     "InvalidEmbeddedLength", "InvalidBonusLength"}

\* the bytes of the fields that an encoder writes before the first field
\* at fault
WrittenBefore(a) ==
    CASE a.call = "Dva" -> 0
      [] a.call = "Regular" ->
             IF "dva1" \in a.faults THEN 0 ELSE IF "dva3" \in a.faults THEN 32 ELSE 48
      [] a.call = "Encrypted" -> IF "dva2" \in a.faults THEN 16 ELSE 48
      [] a.call = "Embedded" -> IF "physical_size" \in a.faults THEN 0 ELSE 48
      [] OTHER -> IF "bonus_len" \in a.faults THEN 10 ELSE 112

\* C23 as stated: when an encoder returns a validation error, its offset
\* and every byte of the output buffer are as before the call.
C23_NothingWritten ==
    pc = "Encoded" /\ result.err \in ValidationErrors =>
        result.off = 0 /\ out = Fill(arg.room, FillByte)

\* C23: Dva::to_encoder validates before it writes, and so does the
\* Embedded encoder for InvalidEmbeddedLength: the offset and the buffer are
\* as before the call.  Every other validation error is returned after the
\* fields before the one at fault were written: the offset is after them
\* and the bytes from the offset on are as before the call.
C23_ValidationWrites ==
    pc = "Encoded" /\ result.err \in ValidationErrors =>
        /\ result.off = WrittenBefore(arg)
        /\ SubSeq(out, result.off + 1, Len(out)) = Fill(arg.room - result.off, FillByte)
        /\ arg.call = "Dva" \/ result.err = "InvalidEmbeddedLength" =>
               result.off = 0 /\ out = Fill(arg.room, FillByte)

\* a Regular block pointer of level 32 has failed after its three DVAs
\* were written
C23_LevelAfterDvas ==
    /\ pc = "Encoded"
    /\ arg.call = "Regular"
    /\ arg.faults = {"level"}
    /\ result.err = "InvalidLevel"
    /\ result.off = 48
    /\ SubSeq(out, 1, 48) # Fill(48, FillByte)

\* C24 as stated: for every input, when the peek step of
\* BlockPointer::from_decoder finishes (variant selected,
\* InvalidBlockPointerType, or out of input) the decoder offset equals its
\* value at entry.
C24_PeekKeepsOffset == pc = "Peeked" => offset = changed

\* C24: when the peek step selects a variant or fails with
\* InvalidBlockPointerType, and when fewer than 48 bytes are left, the
\* decoder offset equals its value at entry, and the variant decoder starts
\* there; when 48 to 55 bytes are left the step fails with EndOfInput and
\* the offset is 48 bytes after its value at entry.  The two steps together
\* are BlockPointer::from_decoder.
C24_PeekRewindsWhenRead ==
    /\ pc = "Peeked" =>
           /\ value.ok \/ value.err = "InvalidBlockPointerType" <=> Len(data) - changed >= 56
           /\ Len(data) - changed >= 56 \/ Len(data) - changed < 48 => offset = changed
           /\ Len(data) - changed \in 48..55 =>
                  value.err = "EndOfInput" /\ offset = changed + 3 * Dva_LENGTH
    /\ pc = "Selected" => value = BlockPointer_from_decoder(data, changed, endian)

\* 52 bytes were left: the peek step has failed 48 bytes after the start
C24_FlagsCutShort ==
    /\ pc = "Peeked"
    /\ Len(data) - changed = 52
    /\ value.err = "EndOfInput"
    /\ offset = changed + 48

\* the encoded size that the pair at the cursor o of the xdr decoder declares
DeclaredSize(d, o) == xdr_get_usize(SubSeq(d, 5, Len(d)), o).val

\* C25: next_pair returns Some(pair) only if the bytes from the pair's
\* encoded_size word through the end of its payload are as many as the
\* encoded size it declares; when the header or the payload takes more, or
\* the payload ends with bytes of the declared size left over, next_pair
\* fails with InvalidEncodedSize.
C25_EncodedSizeKept ==
    pc # "NvSize" \/ changed > 0 =>
        /\ value.ok /\ value.val.some => offset - changed = DeclaredSize(data, changed)
        /\ value.err = "InvalidEncodedSize" => offset - changed # DeclaredSize(data, changed)
        /\ changed = result.start /\ result.extra # 0 /\ ~result.rem =>
               value.err = "InvalidEncodedSize"
        /\ changed = result.start /\ (result.extra = 0 \/ (result.rem /\ result.extra >= -8)) =>
               value.ok /\ value.val.some

\* the second pair of a list declared four bytes more than it takes and
\* was refused
C25_BytesLeftOver ==
    /\ pc = "NvSized"
    /\ changed = result.start
    /\ changed > 8
    /\ result.extra = 4
    /\ value.err = "InvalidEncodedSize"
    /\ offset - changed = DeclaredSize(data, changed) - 4

\* C26: for every vdev size that Label::offsets accepts, the four label
\* regions [o_i, o_i + 262144) of the offsets it returns are pairwise
\* disjoint and each lies within [0, vdev_size).
C26_LabelsApart ==
    pc = "OffsetsDone" /\ value.ok =>
        /\ \A i \in 1..4 : value.val[i] >= 0 /\ value.val[i] + Label_LENGTH <= arg
        /\ \A i \in 1..4 : \A j \in 1..4 :
               i < j => \/ value.val[i] + Label_LENGTH <= value.val[j]
                        \/ value.val[j] + Label_LENGTH <= value.val[i]

\* a vdev of four label lengths was accepted: its second and third labels
\* are at the same offset
C26_LabelsCoincide ==
    /\ pc = "OffsetsDone"
    /\ arg = 4 * Label_LENGTH
    /\ value.ok
    /\ value.val[2] = value.val[3]

\* C27: every successful BlockPointer::from_decoder advances the cursor by
\* exactly 128 bytes, whatever the variant, and every successful
\* Dnode::from_decoder by exactly 512 bytes, whatever the tail, whatever
\* the field values and whatever bytes are before and after.
C27_FixedLength ==
    pc = "FixedDecoded" /\ value.ok =>
        offset - changed = IF arg.call = "BlockPointer" THEN BlockPointer_LENGTH ELSE Dnode_LENGTH

\* a dnode with a tail of two block pointers, eight bytes into the buffer,
\* was decoded up to FixedAfter bytes before the end
C27_TwoPointerTail ==
    /\ pc = "FixedDecoded"
    /\ arg.call = "Dnode"
    /\ value.ok
    /\ value.val.tail.kind = "Two"
    /\ changed = 8
    /\ offset = 520
    /\ Len(data) = 520 + FixedAfter

\* the error of Dva::to_encoder for a DVA, "None" when it has none
DvaFault(dva) ==
    IF dva.asize > ASIZE_MASK_SHIFTED THEN "InvalidAsize"
    ELSE IF dva.vdev > VDEV_MASK_SHIFTED THEN "InvalidVdev"
    ELSE IF dva.offset[1] >= 128 THEN "InvalidOffset"
    ELSE "None"

\* the error of the first DVA of a sequence that has one
RECURSIVE DvasFault(_)
DvasFault(dvas) ==
    IF Len(dvas) = 0 THEN "None"
    ELSE IF DvaFault(Head(dvas)) # "None" THEN DvaFault(Head(dvas))
    ELSE DvasFault(Tail(dvas))

\* the errors that the three conditions of the claim name for a pointer
PointerFaults(p) ==
    (IF p.level > 31 THEN {"InvalidLevel"} ELSE {})
    \cup (IF p.variant = "Embedded" /\ p.logical_size > 33554431
          THEN {"InvalidLogicalSize"} ELSE {})
    \cup (IF p.variant = "Embedded" /\ p.physical_size > 112
          THEN {"InvalidEmbeddedLength"} ELSE {})

EncodedPointer == pc = "Encoded" /\ arg.call # "Dva" /\ arg.call # "Dnode" /\ arg.room >= 128

\* C28 as stated: with 128 bytes available, BlockPointer encode fails with
\* InvalidLevel when level > 31, InvalidLogicalSize when an Embedded
\* pointer's logical_size > 2^25 - 1, InvalidEmbeddedLength when an Embedded
\* pointer's physical_size > 112 (one of them when several hold), and
\* succeeds when none of these conditions holds.
C28_ThreeChecks ==
    EncodedPointer =>
        IF PointerFaults(value) = {} THEN result.ok ELSE result.err \in PointerFaults(value)

\* C28: with 128 bytes available, an Embedded pointer fails with
\* InvalidEmbeddedLength when physical_size > 112, else with InvalidLevel
\* when level > 31, else with InvalidLogicalSize when logical_size >
\* 2^25 - 1; a Regular or Encrypted pointer fails with the error of its
\* first DVA that Dva::to_encoder refuses, else with InvalidLevel when
\* level > 31; a pointer with none of these is encoded in 128 bytes.
C28_ChecksInOrder ==
    EncodedPointer =>
        /\ result.err =
               (IF value.variant = "Embedded"
                THEN IF value.physical_size > 112 THEN "InvalidEmbeddedLength"
                     ELSE IF value.level > 31 THEN "InvalidLevel"
                     ELSE IF value.logical_size > 33554431 THEN "InvalidLogicalSize"
                     ELSE "None"
                ELSE IF DvasFault(value.dvas) # "None" THEN DvasFault(value.dvas)
                     ELSE IF value.level > 31 THEN "InvalidLevel"
                     ELSE "None")
        /\ (result.ok <=> result.err = "None")
        /\ (result.ok => result.off = 128)

\* a Regular pointer of level 31 whose third DVA has an offset of 64 bits
\* was refused with 128 bytes available
C28_DvaRefused ==
    /\ EncodedPointer
    /\ arg.call = "Regular"
    /\ arg.faults = {"dva3"}
    /\ PointerFaults(value) = {}
    /\ result.err = "InvalidOffset"

\* C29: once next_pair has returned None, every later next_pair without a
\* reset in between returns None and leaves the cursor where it was: no
\* byte after the terminator is decoded as a pair.
C29_EndStable ==
    pc = "NvCalled" /\ result.nones >= 1 =>
        /\ value.ok /\ ~value.val.some
        /\ result.nones >= 2 => offset = changed

\* next_pair returned None and the call after it returned the pair that
\* follows the terminator
C29_PairAfterEnd ==
    /\ pc = "NvCalled"
    /\ result.nones = 1
    /\ value.ok
    /\ value.val.some
    /\ value.val.name = <<98>>

\* the k-th element of the array as a get returns it
ArrayElement(a, k) ==
    CASE a.data_type = Uint32Array -> xdr_get_u32(a.elems[k], 0).val
      [] a.data_type = Uint64Array -> a.elems[k]
      [] a.data_type = StringArray -> xdr_get_str(a.elems[k], 0).val
      [] OTHER -> NestedDecoder(1, "Little", Ok(a.elems[k], 0)).val

\* C30: in any interleaving of get and reset, the k-th get since the last
\* reset (or since creation) of an ArrayDecoder over n elements returns
\* element k for k <= n, every get after n gets returns EndOfArray, len()
\* is n minus the gets since the last reset, floored at 0, and capacity()
\* is n.
C30_Restartable ==
    /\ ArrayDecoder_capacity(result) = Len(arg.elems)
    /\ ArrayDecoder_len(result, changed) =
           IF out.gets <= Len(arg.elems) THEN Len(arg.elems) - out.gets ELSE 0
    /\ pc = "ArrayGot" =>
           IF out.gets <= Len(arg.elems)
           THEN value.ok /\ value.val = ArrayElement(arg, out.gets)
           ELSE value.err = "EndOfArray"

\* after a reset, the second get of an array of two nested lists has
\* failed for want of input
C30_SecondListLost ==
    /\ pc = "ArrayGot"
    /\ arg.data_type = NvListArray
    /\ Len(arg.elems) = 2
    /\ out.restarted
    /\ out.gets = 2
    /\ value.err = "EndOfInput"
    /\ ArrayDecoder_len(result, changed) = 0

=============================================================================
